---- MODULE Spec2Model ----
(***************************************************************************)
(* Stock-monitoring core of the POPMART repository: the worker poll loop   *)
(* (worker.py), the scheduled monitors of app.py (monitors/*.py), the      *)
(* asyncio loops (monitor_au.py, monitor_global.py), the fetchers, and the *)
(* database they share (database.py).                                      *)
(***************************************************************************)
EXTENDS Integers, Sequences, FiniteSets, TLC

\* ------------------------------------------------------------------ bounds
MaxCycles == 3
MaxTicks == 3
MaxVariants == 2
MaxSkus == 2

\* --------------------------------------------------------------- universes
Products == {"A", "B"}
Users == {"u1", "u2"}
Regions == {"GLOBAL", "AU"}
Keys == Products \X Regions

\* the status the storefront fetchers accept, and the statuses an upstream
\* answers with
HTTP_OK == 200
StatusCodes == {HTTP_OK, 404}

VARIABLES
    \* database
    products,          \* products table: product_id -> [global_link, au_link]
    user_monitoring,   \* unexpired user_monitoring rows per (user, product)
    stock_state,       \* StockState per (product, region)
    \* process configuration
    db,                \* module-level db handle is not None
    BOT_TOKEN,         \* os.environ has BOT_TOKEN
    arg_token,         \* --token was given
    NOTIFICATION_BOT_TOKEN, \* os.environ has NOTIFICATION_BOT_TOKEN (app.py)
    pc,                \* position of the running program
    cycle,             \* number of poll cycles started
    monitored_products,\* rows enumerated by the running cycle
    idx,               \* loop index of the running for-loop
    results,           \* results list of the running cycle
    should_notify,     \* tracker answer for results[idx]
    trace,             \* operations of the running cycle, in program order
    notifications,     \* send_notification calls of the running cycle
    errors,            \* cycles that ended in check_all_products' except branch
    obsHist,           \* successful observations per (product, link), in order
    callHist,          \* tracker calls per (product, region) key passed
    lastObs,           \* asyncio loops: last successful observation per product
    \* a single fetcher call
    fetcher,           \* the fetcher called
    reference,         \* the product reference it is given
    upstream,          \* what the upstream does on its request
    outcome,           \* what comes back to the caller
    \* the clock of a poll loop
    check_interval,    \* the loop's interval, in time units
    now,               \* time.time()
    start_time,        \* start_time of the running cycle
    starts,            \* start_time of every cycle so far, in order
    sleeps,            \* per finished cycle: elapsed, wait_time, whether it raised
    utcoffset          \* the host's local time minus UTC, in time units

dbVars == <<products, user_monitoring, stock_state>>
cfgVars == <<db, BOT_TOKEN, arg_token, NOTIFICATION_BOT_TOKEN>>
loopVars == <<pc, cycle, monitored_products, idx, results, should_notify, trace,
              notifications, errors>>
histVars == <<obsHist, callHist>>
asyncVars == <<lastObs>>
fetchVars == <<fetcher, reference, upstream, outcome>>
clockVars == <<check_interval, now, start_time, starts, sleeps, utcoffset>>
vars == <<dbVars, cfgVars, loopVars, histVars, asyncVars, fetchVars, clockVars>>

\* ----------------------------------------------------------------- helpers
RECURSIVE SetToSeqs(_)
\* every ordering of a finite set, as sequences
SetToSeqs(S) ==
    IF S = {} THEN {<<>>}
    ELSE UNION {{<<x>> \o t : t \in SetToSeqs(S \ {x})} : x \in S}

Range(s) == {s[i] : i \in 1..Len(s)}

\* A link column holds NULL ("None"), the empty string, or a URL; URLs are
\* told apart by their shape only: "url_spu" is ".../goods/detail?spuId=938",
\* "url_path" is ".../products/938/NAME", "url_other" any other URL.
\* Falsy is Python's `not link`.
Falsy(link) == link \in {"None", ""}

UserOrder == <<"u1", "u2">>

\* ---------------------------------------------------------------- database
\* Database.get_all_active_monitoring: one row per product that has at least
\* one unexpired monitor (JOIN + GROUP BY product); no ORDER BY, so any order.
ActiveProducts(um) == {p \in Products : \E u \in Users : um[<<u, p>>] > 0}

MonitoringRow(um, prods, p) ==
    [product_id |-> p,
     global_link |-> prods[p].global_link,
     au_link |-> prods[p].au_link,
     subscriber_count |-> Cardinality({u \in Users : um[<<u, p>>] > 0})]

\* the enumeration without its GROUP BY: one row per monitor row
get_all_active_monitoring_ungrouped(um, prods) ==
    {[i \in 1..Len(s) |-> MonitoringRow(um, prods, s[i][2])] :
        s \in SetToSeqs({up \in Users \X Products : um[up] > 0})}

get_all_active_monitoring(um, prods) ==
    {[i \in 1..Len(s) |-> MonitoringRow(um, prods, s[i])] :
        s \in SetToSeqs(ActiveProducts(um))}

\* Database.get_product_subscribers: one row per unexpired monitor row of the
\* product (JOIN users, no DISTINCT).
RECURSIVE SubscriberRows(_, _, _)
SubscriberRows(um, p, i) ==
    IF i > Len(UserOrder) THEN <<>>
    ELSE [k \in 1..um[<<UserOrder[i], p>>] |-> UserOrder[i]]
         \o SubscriberRows(um, p, i + 1)

get_product_subscribers(um, p) == SubscriberRows(um, p, 1)

\* Database.should_notify_stock_change(product, region, observed): the answer
\* (true iff the prior state was false/unknown and observed is true) ...
ShouldNotifyAnswer(st, key, observed) == observed /\ st[key] # "in"

\* ... and its side effect: the stored state becomes the observed value.
ShouldNotifyUpdate(st, key, observed) ==
    [st EXCEPT ![key] = IF observed THEN "in" ELSE "out"]

\* ---------------------------------------------------------------- fetchers
\* What the upstream does on one request.
HtmlUpstreams ==
    {[net |-> n, status_code |-> 0, oos_phrase |-> FALSE] :
        n \in {"conn_error", "timeout"}}
    \cup {[net |-> "ok", status_code |-> s, oos_phrase |-> o] :
        s \in StatusCodes, o \in BOOLEAN}

\* worker.check_product_http: everything after the first log line is inside
\* try/except; the status code of the response is not looked at.
check_product_http(product_id, product_url, up) ==
    IF Falsy(product_url) \/ up.net # "ok"
    THEN [db_product_id |-> product_id, status |-> "ERROR", in_stock |-> FALSE]
    ELSE IF up.oos_phrase
         THEN [db_product_id |-> product_id, status |-> "OUT OF STOCK",
               in_stock |-> FALSE]
         ELSE [db_product_id |-> product_id, status |-> "IN STOCK",
               in_stock |-> TRUE]

\* A storefront variant record as it comes out of the JSON body: each of the
\* two fields may be absent or null.
Variants ==
    {[available |-> a, qty_kind |-> k, qty |-> q] :
        a \in {"true", "false", "null", "absent"},
        k \in {"absent", "null"}, q \in {0}}
    \cup {[available |-> a, qty_kind |-> "int", qty |-> q] :
        a \in {"true", "false", "null", "absent"}, q \in {-1, 0, 5}}

VariantLists(n) == UNION {[1..m -> Variants] : m \in 0..n}

\* Body of a storefront response: not JSON; JSON that is no object; an object
\* whose `variants` is absent, null or a list.
StoreBodies(n) ==
    {[shape |-> sh, variants_kind |-> "absent", variants |-> <<>>] :
        sh \in {"nonjson", "json_other", "object"}}
    \cup {[shape |-> "object", variants_kind |-> "null", variants |-> <<>>]}
    \cup {[shape |-> "object", variants_kind |-> "list", variants |-> v] :
        v \in VariantLists(n)}

StoreUpstreams(n) ==
    {[net |-> e, status_code |-> 0,
      body |-> [shape |-> "nonjson", variants_kind |-> "absent", variants |-> <<>>]] :
        e \in {"conn_error", "timeout"}}
    \cup {[net |-> "ok", status_code |-> c, body |-> b] :
        c \in StatusCodes, b \in StoreBodies(n)}

\* The upstream behaviours the poll loops are run against: one of each class.
LoopStoreUpstreams ==
    {up \in StoreUpstreams(1) :
        \/ up.net = "conn_error"
        \/ /\ up.net = "ok"
           /\ up.body.shape = "object"
           /\ up.body.variants_kind = "list"
           /\ Len(up.body.variants) = 1
           /\ up.body.variants[1].qty_kind = "int"
           /\ up.body.variants[1].qty = 0
           /\ up.body.variants[1].available \in {"true", "false"}
        \/ /\ up.net = "ok"
           /\ up.status_code = HTTP_OK
           /\ up.body.shape = "nonjson"}

\* get_stock_level (monitor_au.py and AUMonitor): "RAISE" is the TypeError of
\* `None > 0` when the variant is available and its inventory_quantity is null.
get_stock_level(item) ==
    IF item.available # "true" THEN "Out of stock"
    ELSE IF item.qty_kind = "null" THEN "RAISE"
    ELSE LET quantity == IF item.qty_kind = "absent" THEN 0 ELSE item.qty IN
         IF quantity > 0 THEN "Quantity"
         ELSE "In Stock (Quantity unknown)"

\* The body of check_stock's try block, the same in monitor_au.check_stock and
\* AUMonitor.check_stock: a determination, or "none" for every failure.
check_stock_try(url, up) ==
    IF url = "" \/ up.net # "ok" THEN [kind |-> "none", in_stock |-> FALSE]
    ELSE IF up.status_code # HTTP_OK THEN [kind |-> "none", in_stock |-> FALSE]
    ELSE IF up.body.shape # "object" THEN [kind |-> "none", in_stock |-> FALSE]
    ELSE IF up.body.variants_kind = "null" THEN [kind |-> "none", in_stock |-> FALSE]
    ELSE LET vs == up.body.variants IN
         IF \E i \in 1..Len(vs) : get_stock_level(vs[i]) = "RAISE"
         THEN [kind |-> "none", in_stock |-> FALSE]
         ELSE [kind |-> "value",
               in_stock |-> \E i \in 1..Len(vs) :
                                get_stock_level(vs[i]) # "Out of stock"]

\* monitor_au.check_stock: an empty or missing url returns None at once
monitor_au_check_stock(url, up) ==
    IF Falsy(url) THEN [kind |-> "none", in_stock |-> FALSE]
    ELSE check_stock_try(url, up)

\* AUMonitor.check_stock: url.split runs before the try block, so a missing
\* url raises AttributeError out of the fetcher
AUMonitor_check_stock(url, up) ==
    IF url = "None" THEN [kind |-> "raised", in_stock |-> FALSE]
    ELSE check_stock_try(url, up)

\* What the headless browser shows for one product page.
SeleniumPages ==
    {"driver_error", "title_timeout", "exception", "add_to_cart", "notify_me",
     "unknown"}

\* SeleniumMonitor.check_product
SeleniumMonitor_check_product(db_product_id, page) ==
    IF page \in {"driver_error", "title_timeout", "exception"}
    THEN [db_product_id |-> db_product_id, status |-> "ERROR", in_stock |-> FALSE]
    ELSE IF page = "add_to_cart"
         THEN [db_product_id |-> db_product_id, status |-> "IN STOCK",
               in_stock |-> TRUE]
         ELSE IF page = "notify_me"
              THEN [db_product_id |-> db_product_id, status |-> "OUT OF STOCK",
                    in_stock |-> FALSE]
              ELSE [db_product_id |-> db_product_id, status |-> "UNKNOWN",
                    in_stock |-> FALSE]

\* A SKU record of a product detail: its `stock` may be absent, null or an
\* object, and in the object `onlineStock` may be absent, null or a number.
ApiSkus ==
    {[stock_kind |-> k, online_kind |-> "absent", online |-> 0] :
        k \in {"absent", "null", "object"}}
    \cup {[stock_kind |-> "object", online_kind |-> "null", online |-> 0]}
    \cup {[stock_kind |-> "object", online_kind |-> "int", online |-> q] :
        q \in {0, 5}}

ApiSkuLists(n) == UNION {[1..m -> ApiSkus] : m \in 0..n}

NoApiBody ==
    [shape |-> "nonjson", data_kind |-> "absent", skus_kind |-> "absent",
     skus |-> <<>>, brand_kind |-> "absent", goods_kind |-> "absent",
     goods |-> <<>>]

\* Body of a productDetails response: not JSON; JSON null; a JSON list; an
\* object whose `data` is absent, null, a non-object value or an object with
\* `skus` (absent, null or a list) and `brand` (absent, null or an object).
\* The other payload shape has its records under `goods`, with `skus`
\* absent or empty.
ApiBodies(n) ==
    {[NoApiBody EXCEPT !.shape = sh] : sh \in {"nonjson", "json_null", "json_list"}}
    \cup {[NoApiBody EXCEPT !.shape = "object", !.data_kind = d] :
        d \in {"absent", "null", "other"}}
    \cup {[shape |-> "object", data_kind |-> "object", skus_kind |-> k,
           skus |-> <<>>, brand_kind |-> b, goods_kind |-> "absent",
           goods |-> <<>>] :
        k \in {"absent", "null"}, b \in {"absent", "null", "object"}}
    \cup {[shape |-> "object", data_kind |-> "object", skus_kind |-> "list",
           skus |-> v, brand_kind |-> b, goods_kind |-> "absent",
           goods |-> <<>>] :
        v \in ApiSkuLists(n), b \in {"absent", "null", "object"}}
    \cup {[shape |-> "object", data_kind |-> "object", skus_kind |-> k,
           skus |-> <<>>, brand_kind |-> b, goods_kind |-> "list",
           goods |-> g] :
        k \in {"absent", "list"}, b \in {"absent", "null", "object"},
        g \in ApiSkuLists(n)}

ApiUpstreams(n) ==
    {[net |-> e, status_code |-> 0, body |-> NoApiBody] :
        e \in {"conn_error", "timeout"}}
    \cup {[net |-> "ok", status_code |-> c, body |-> b] :
        c \in StatusCodes, b \in ApiBodies(n)}

\* The API behaviours the poll loops are run against: one of each class.
LoopApiUpstreams ==
    {up \in ApiUpstreams(1) :
        \/ up.net = "conn_error"
        \/ /\ up.net = "ok"
           /\ up.status_code = HTTP_OK
           /\ up.body.shape = "object"
           /\ up.body.data_kind \in {"null", "object"}
           /\ up.body.skus_kind = "list"
           /\ up.body.brand_kind = "object"
           /\ Len(up.body.skus) = 1
           /\ up.body.skus[1].online_kind \in {"int", "null"}}

\* The text of a URL, as far as extract_product_id_from_url reads it: a
\* sequence of the substrings it searches for ("spuId=", "/products/"), the
\* separators it splits on ("&", "/"), a digit ("9") and any other character
\* ("x"). The empty sequence is the empty string; None is NoneText.
MaxUrlLen == 4

UrlTokens == {"spuId=", "/products/", "&", "/", "9", "x"}

UrlTexts(n) == UNION {[1..m -> UrlTokens] : m \in 0..n}

NoneText == <<"None">>

\* Python's `not s` for a string or None
FalsyText(s) == s = NoneText \/ s = <<>>

\* the text of the link shapes the poll loops are run with
LinkText(link) ==
    IF link = "None" THEN NoneText
    ELSE IF link = "" THEN <<>>
    ELSE IF link = "url_spu" THEN <<"x", "spuId=", "9">>
    ELSE IF link = "url_path" THEN <<"x", "/products/", "9", "/", "x">>
    ELSE <<"x", "/", "x">>

\* `sep in s`
Contains(s, sep) == \E i \in 1..Len(s) : s[i] = sep

RECURSIVE AfterFirst(_, _)
\* what follows the first sep in s, for s that contains sep
AfterFirst(s, sep) ==
    IF Head(s) = sep THEN Tail(s) ELSE AfterFirst(Tail(s), sep)

RECURSIVE UpTo(_, _)
\* s up to the first of the separators seps, or all of s
UpTo(s, seps) ==
    IF s = <<>> \/ Head(s) \in seps THEN <<>>
    ELSE <<Head(s)>> \o UpTo(Tail(s), seps)

\* s.split(sep)[1], for s that contains sep
SplitSecond(s, sep) == UpTo(AfterFirst(s, sep), {sep})

\* s.split(sep)[0]
SplitFirst(s, sep) == UpTo(s, {sep})

\* str.isdigit
isdigit(s) == s # <<>> /\ \A i \in 1..Len(s) : s[i] = "9"

\* `if parts and parts[0].isdigit()`: the path branch returns parts[0] only
\* when it is a number
PathId(parts0) == IF isdigit(parts0) THEN parts0 ELSE NoneText

\* monitor_global.extract_product_id_from_url
extract_product_id_from_url(url) ==
    IF FalsyText(url) THEN NoneText
    ELSE IF Contains(url, "spuId=")
         THEN SplitFirst(SplitSecond(url, "spuId="), "&")
         ELSE IF Contains(url, "/products/")
              THEN PathId(SplitFirst(SplitSecond(url, "/products/"), "/"))
              ELSE NoneText

\* monitor_global.make_api_request: the parsed body whatever the status code
\* is, or the error dict when the request or the JSON parse raised
make_api_request(up) ==
    IF up.net # "ok" \/ up.body.shape = "nonjson"
    THEN [error |-> TRUE, body |-> NoApiBody]
    ELSE [error |-> FALSE, body |-> up.body]

\* monitor_global.get_product_details
get_product_details(spu_id, up) == make_api_request(up)

\* `sku.get("stock", {}).get("onlineStock", 0)` followed by `stock > 0`
\* raises on a null stock record and on a null onlineStock
SkuRaises(sku) ==
    sku.stock_kind = "null" \/ (sku.stock_kind = "object" /\ sku.online_kind = "null")

SkuOnlineStock(sku) ==
    IF sku.stock_kind = "object" /\ sku.online_kind = "int" THEN sku.online ELSE 0

\* The walk over a product detail that get_product_stock_info and
\* check_all_products share: "nodata", "RAISE", or the any_in_stock flag as
\* "in" / "out".
ScanDetails(details) ==
    LET b == details.body IN
    IF details.error THEN "nodata"
    ELSE IF b.shape = "json_null" THEN "RAISE"
    ELSE IF b.shape = "json_list" THEN "nodata"
    ELSE IF b.data_kind \in {"absent", "null"} THEN "nodata"
    ELSE IF b.data_kind = "other" THEN "RAISE"
    ELSE IF b.skus_kind = "null" THEN "RAISE"
    ELSE IF \E i \in 1..Len(b.skus) : SkuRaises(b.skus[i]) THEN "RAISE"
    ELSE IF b.brand_kind = "null" THEN "RAISE"
    ELSE IF \E i \in 1..Len(b.skus) : SkuOnlineStock(b.skus[i]) > 0 THEN "in"
    ELSE "out"

\* monitor_global.get_product_stock_info: always a dict; `status` tells the
\* branches apart
get_product_stock_info(product_id, up) ==
    LET scan == ScanDetails(get_product_details(product_id, up)) IN
    IF scan = "nodata"
    THEN [status |-> "Error fetching details", in_stock |-> FALSE]
    ELSE IF scan = "RAISE" THEN [status |-> "exception", in_stock |-> FALSE]
    ELSE [status |-> "ok", in_stock |-> scan = "in"]

\* monitor_global.check_product_stock: a boolean in every case
check_product_stock(product_id, up) ==
    IF Falsy(product_id) THEN FALSE
    ELSE get_product_stock_info(product_id, up).in_stock

\* ------------------------------------------------------------ worker.py
\* region tag notify_results passes to the tracker
WORKER_REGION == "GLOBAL"

\* no result is skipped
SkipResult_never(r) == FALSE

\* notify_results: an ERROR result is skipped ...
SkipResult(r) == r.status = "ERROR"

\* `break` in place of `continue`
AfterError_break(i, n) == n + 1

\* ... by `continue`: the loop goes on with the next of its n results
AfterError(i, n) == i + 1

\* the tracker's answer is not looked at
NotifyDue_every(in_stock, answer) == in_stock

\* notify_results: send_notification is called when the product is in stock
\* and the tracker said so
NotifyDue(in_stock, answer) == in_stock /\ answer

\* the exception escapes both handlers
AfterCycleError_fatal == "fatal"

\* check_all_products: its except branch logs and returns [], and main goes
\* on to the sleep
AfterCycleError == "sleeping"

ProductTables ==
    {[p \in Products |-> [global_link |-> g[p], au_link |-> "url_other"]] :
        g \in [Products -> {"", "url_path"}]}

MonitoringTables ==
    {um \in [Users \X Products -> 0..1] :
        /\ um[<<"u1", "A">>] = 1
        /\ um[<<"u2", "B">>] = 1}

InitDb ==
    /\ products \in ProductTables
    /\ user_monitoring \in MonitoringTables
    /\ stock_state = [k \in Keys |-> "unknown"]

InitHist ==
    /\ obsHist = [k \in Keys |-> <<>>]
    /\ callHist = [k \in Keys |-> <<>>]

NoObs == [cycle |-> 0, observed |-> "none"]

Pending == [kind |-> "pending", in_stock |-> FALSE]

\* no asyncio loop runs and no single fetcher call is under way
InitNoAsync == lastObs = [p \in Products |-> NoObs]

InitNoFetch ==
    /\ fetcher = "none"
    /\ reference = "None"
    /\ upstream = [net |-> "none"]
    /\ outcome = Pending

\* no poll loop's clock is being followed
InitNoClock ==
    /\ check_interval = 0
    /\ now = 0
    /\ start_time = 0
    /\ starts = <<>>
    /\ sleeps = <<>>
    /\ utcoffset = 0

InitWorker ==
    /\ db \in BOOLEAN
    /\ BOT_TOKEN \in BOOLEAN
    /\ arg_token \in BOOLEAN
    /\ NOTIFICATION_BOT_TOKEN = FALSE
    /\ pc = "start"
    /\ cycle = 0
    /\ monitored_products = <<>>
    /\ idx = 0
    /\ results = <<>>
    /\ should_notify = FALSE
    /\ trace = <<>>
    /\ notifications = <<>>
    /\ errors = 0

Init == InitDb /\ InitHist /\ InitNoAsync /\ InitNoFetch /\ InitNoClock /\ InitWorker

\* the startup check lets every configuration through
TokenPresent_always(arg, env) == TRUE

\* main line 218: `args.token or os.environ.get('BOT_TOKEN')`
TokenPresent(arg, env) == arg \/ env

\* main, lines 213-231: the startup check of the bot token; "exit" is
\* sys.exit(1)
main_start ==
    /\ pc = "start"
    /\ pc' = IF TokenPresent(arg_token, BOT_TOKEN) THEN "idle" ELSE "exit"
    /\ UNCHANGED <<dbVars, histVars, cfgVars, asyncVars, fetchVars, clockVars, cycle,
                   monitored_products, idx, results, should_notify, trace,
                   notifications, errors>>

\* main line 235 and check_all_products lines 85-98: a cycle starts and
\* enumerates the monitors; a missing db handle, a failing enumeration and an
\* empty enumeration all end the cycle's work at once.
cycle_begin ==
    /\ pc = "idle"
    /\ cycle < MaxCycles
    /\ cycle' = cycle + 1
    /\ results' = <<>>
    /\ trace' = <<>>
    /\ notifications' = <<>>
    /\ should_notify' = FALSE
    /\ \/ /\ ~db
          /\ monitored_products' = <<>>
          /\ idx' = 0
          /\ pc' = "sleeping"
          /\ UNCHANGED errors
       \/ /\ db
          /\ \E raises \in BOOLEAN :
                IF raises
                THEN /\ monitored_products' = <<>>
                     /\ idx' = 0
                     /\ pc' = AfterCycleError
                     /\ errors' = errors + 1
                ELSE \E rows \in get_all_active_monitoring(user_monitoring, products) :
                     /\ monitored_products' = rows
                     /\ idx' = IF rows = <<>> THEN 0 ELSE 1
                     /\ pc' = IF rows = <<>> THEN "sleeping" ELSE "fetching"
                     /\ UNCHANGED errors
    /\ UNCHANGED <<dbVars, histVars, cfgVars, asyncVars, fetchVars, clockVars>>

\* check_all_products lines 101-118: one pass of the for-loop, or its end
fetch_step ==
    /\ pc = "fetching"
    /\ IF idx > Len(monitored_products)
       THEN /\ pc' = "evaluating"
            /\ idx' = 1
            /\ UNCHANGED <<results, trace, obsHist>>
       ELSE LET row == monitored_products[idx] IN
            /\ pc' = pc
            /\ idx' = idx + 1
            /\ IF Falsy(row.global_link)
               THEN UNCHANGED <<results, trace, obsHist>>
               ELSE \E up \in HtmlUpstreams :
                    LET r == check_product_http(row.product_id, row.global_link, up) IN
                    /\ results' = Append(results, r)
                    /\ trace' = Append(trace, [op |-> "fetch", product |-> row.product_id,
                                             ok |-> r.status # "ERROR"])
                    /\ obsHist' = IF r.status = "ERROR" THEN obsHist
                                  ELSE [obsHist EXCEPT ![<<row.product_id, "GLOBAL">>] =
                                            Append(@, r.in_stock)]
    /\ UNCHANGED <<dbVars, callHist, cfgVars, asyncVars, fetchVars, clockVars, cycle,
                   monitored_products, should_notify, notifications, errors>>

\* notify_results lines 133-153: one pass of the for-loop, up to the call of
\* send_notification, or the loop's end and the return to main (lines 245-249)
evaluate_step ==
    /\ pc = "evaluating"
    /\ IF idx > Len(results)
       THEN /\ pc' = "sleeping"
            /\ UNCHANGED <<idx, stock_state, callHist, should_notify, trace>>
       ELSE LET r == results[idx]
                key == <<r.db_product_id, WORKER_REGION>> IN
            IF SkipResult(r)
            THEN /\ idx' = AfterError(idx, Len(results))
                 /\ pc' = pc
                 /\ UNCHANGED <<stock_state, callHist, should_notify, trace>>
            ELSE LET answer == ShouldNotifyAnswer(stock_state, key, r.in_stock) IN
                 /\ should_notify' = answer
                 /\ stock_state' = ShouldNotifyUpdate(stock_state, key, r.in_stock)
                 /\ callHist' = [callHist EXCEPT ![key] =
                                      Append(@, [observed |-> r.in_stock, answer |-> answer])]
                 /\ trace' = Append(trace, [op |-> "track", product |-> r.db_product_id,
                                          ok |-> TRUE])
                 /\ IF NotifyDue(r.in_stock, answer)
                    THEN pc' = "notifying" /\ idx' = idx
                    ELSE pc' = pc /\ idx' = idx + 1
    /\ UNCHANGED <<products, user_monitoring, obsHist, cfgVars, asyncVars, fetchVars, clockVars,
                   cycle, monitored_products, results, notifications, errors>>

\* send_notification lines 155-203: the whole batch
send_notification ==
    /\ pc = "notifying"
    /\ LET p == results[idx].db_product_id
           subscribers == get_product_subscribers(user_monitoring, p) IN
       /\ trace' = Append(trace, [op |-> "notify", product |-> p, ok |-> TRUE])
       /\ IF ~BOT_TOKEN
          THEN notifications' = Append(notifications,
                   [product |-> p, list_read |-> FALSE, recipients |-> <<>>,
                    attempted |-> <<>>, success_count |-> 0])
          ELSE \E ok \in [1..Len(subscribers) -> BOOLEAN] :
               notifications' = Append(notifications,
                   [product |-> p, list_read |-> TRUE, recipients |-> subscribers,
                    attempted |-> subscribers,
                    success_count |-> Cardinality({i \in 1..Len(subscribers) : ok[i]})])
    /\ pc' = "evaluating"
    /\ idx' = idx + 1
    /\ UNCHANGED <<dbVars, histVars, cfgVars, asyncVars, fetchVars, clockVars, cycle,
                   monitored_products, results, should_notify, errors>>

\* main lines 245-249 and 234: the sleep ends and the loop goes round
wake ==
    /\ pc = "sleeping"
    /\ pc' = "idle"
    /\ UNCHANGED <<dbVars, histVars, cfgVars, asyncVars, fetchVars, clockVars, cycle,
                   monitored_products, idx, results, should_notify, trace,
                   notifications, errors>>

InLoop == pc \in {"idle", "fetching", "evaluating", "notifying", "sleeping"}

\* main lines 251-252: KeyboardInterrupt, at any point of the loop
keyboard_interrupt ==
    /\ InLoop
    /\ pc' = "stopped"
    /\ UNCHANGED <<dbVars, histVars, cfgVars, asyncVars, fetchVars, clockVars, cycle,
                   monitored_products, idx, results, should_notify, trace,
                   notifications, errors>>

WorkerStep ==
    \/ main_start
    \/ cycle_begin
    \/ fetch_step
    \/ evaluate_step
    \/ send_notification
    \/ wake

Next == WorkerStep \/ keyboard_interrupt

Spec == Init /\ [][Next]_vars

\* ------------------------------------------------- notification_bot.py
\* NotificationBot.send_stock_notification with send_bulk_message: the entry
\* the call leaves in the journal; ok[i] is whether send i succeeded.
send_stock_notification(um, p, ok) ==
    LET subscribers == get_product_subscribers(um, p) IN
    [product |-> p, list_read |-> TRUE, recipients |-> subscribers,
     attempted |-> subscribers,
     success_count |-> Cardinality({i \in 1..Len(subscribers) : ok[i]})]

\* ------------------------------------ app.py with monitors/*_monitor.py
\* region tag SeleniumMonitor.check_all_monitored_products passes to the
\* tracker for the product's global link
SELENIUM_REGION == "AU"

\* region tag AUMonitor.check_all_monitored_products passes to the tracker
AU_REGION == "AU"

\* the failure check is dropped
StockInfoMissing_never(stock_info) == FALSE

\* AUMonitor.check_all_monitored_products line 70: `if not stock_info`
StockInfoMissing(stock_info) == stock_info.kind # "value"

AppProductTables ==
    {[p \in Products |->
        IF p = "A" THEN [global_link |-> g, au_link |-> a]
        ELSE [global_link |-> "url_path", au_link |-> "url_other"]] :
        g \in {"", "url_path"}, a \in {"", "url_other"}}

InitApp ==
    /\ products \in AppProductTables
    /\ user_monitoring \in MonitoringTables
    /\ stock_state = [k \in Keys |-> "unknown"]
    /\ InitHist
    /\ InitNoAsync
    /\ InitNoFetch
    /\ InitNoClock
    /\ db = TRUE
    /\ BOT_TOKEN = FALSE
    /\ arg_token = FALSE
    /\ NOTIFICATION_BOT_TOKEN \in BOOLEAN
    /\ pc = "app_start"
    /\ cycle = 0
    /\ monitored_products = <<>>
    /\ idx = 0
    /\ results = <<>>
    /\ should_notify = FALSE
    /\ trace = <<>>
    /\ notifications = <<>>
    /\ errors = 0

\* run_monitors lines 30-38 and 43-44: without the token the function prints
\* a message and returns, having scheduled nothing
run_monitors_start ==
    /\ pc = "app_start"
    /\ pc' = IF NOTIFICATION_BOT_TOKEN THEN "app_wait" ELSE "app_no_token"
    /\ UNCHANGED <<dbVars, histVars, cfgVars, asyncVars, fetchVars, clockVars, cycle, monitored_products, idx,
                   results, should_notify, trace, notifications, errors>>

RECURSIVE LinkedRows(_)
\* the rows of an enumeration that have a global link, in order
LinkedRows(rows) ==
    IF rows = <<>> THEN <<>>
    ELSE IF ~Falsy(Head(rows).global_link)
         THEN <<Head(rows)>> \o LinkedRows(Tail(rows))
         ELSE LinkedRows(Tail(rows))

\* SeleniumMonitor.check_all_monitored_products lines 289-319, run by
\* schedule.run_pending: the enumeration and the thread pool's fetches. The
\* method's own try/except turns a failing enumeration into an empty run.
selenium_begin ==
    /\ pc = "app_wait"
    /\ cycle < MaxTicks
    /\ cycle' = cycle + 1
    /\ notifications' = <<>>
    /\ should_notify' = FALSE
    /\ \E raises \in BOOLEAN :
          IF raises
          THEN /\ monitored_products' = <<>>
               /\ results' = <<>>
               /\ trace' = <<>>
               /\ idx' = 0
               /\ pc' = "au_begin"
          ELSE \E rows \in get_all_active_monitoring(user_monitoring, products) :
               LET linked == LinkedRows(rows) IN
               \E pages \in [1..Len(linked) -> SeleniumPages] :
               LET rs == [i \in 1..Len(linked) |->
                            SeleniumMonitor_check_product(linked[i].product_id, pages[i])]
               IN
               /\ monitored_products' = rows
               /\ results' = rs
               /\ trace' = [i \in 1..Len(rs) |->
                               [op |-> "fetch", product |-> rs[i].db_product_id,
                                ok |-> rs[i].status # "ERROR"]]
               /\ idx' = 1
               /\ pc' = IF rows = <<>> THEN "au_begin" ELSE "sel_eval"
    /\ UNCHANGED <<dbVars, histVars, cfgVars, asyncVars, fetchVars, clockVars, errors>>

\* SeleniumMonitor.check_all_monitored_products lines 321-344: one pass of
\* the for-loop over the results, or the loop's end
selenium_evaluate_step ==
    /\ pc = "sel_eval"
    /\ IF idx > Len(results)
       THEN /\ pc' = "au_begin"
            /\ UNCHANGED <<idx, stock_state, should_notify, trace,
                           notifications>>
       ELSE LET r == results[idx]
                key == <<r.db_product_id, SELENIUM_REGION>> IN
            /\ pc' = pc
            /\ idx' = idx + 1
            /\ IF SkipResult(r)
               THEN UNCHANGED <<stock_state, should_notify, trace,
                                notifications>>
               ELSE LET answer == ShouldNotifyAnswer(stock_state, key, r.in_stock)
                        t1 == Append(trace, [op |-> "track", product |-> r.db_product_id,
                                             ok |-> TRUE])
                    IN
                    /\ should_notify' = answer
                    /\ stock_state' = ShouldNotifyUpdate(stock_state, key, r.in_stock)
                    /\ IF r.in_stock /\ answer
                       THEN /\ trace' = Append(t1, [op |-> "notify",
                                   product |-> r.db_product_id, ok |-> TRUE])
                            /\ \E ok \in [1..Len(get_product_subscribers(
                                            user_monitoring, r.db_product_id)) -> BOOLEAN] :
                                 notifications' = Append(notifications,
                                     send_stock_notification(user_monitoring,
                                                             r.db_product_id, ok))
                       ELSE /\ trace' = t1
                            /\ UNCHANGED notifications
    /\ UNCHANGED <<products, user_monitoring, histVars, cfgVars, asyncVars, fetchVars, clockVars, cycle,
                   monitored_products, results, errors>>

\* AUMonitor.check_all_monitored_products line 57: the enumeration; the
\* method has no try/except, so a failure ends run_monitors' thread
au_begin ==
    /\ pc = "au_begin"
    /\ trace' = <<>>
    /\ notifications' = <<>>
    /\ results' = <<>>
    /\ should_notify' = FALSE
    /\ \E raises \in BOOLEAN :
          IF raises
          THEN /\ monitored_products' = <<>>
               /\ idx' = 0
               /\ pc' = "app_crashed"
          ELSE \E rows \in get_all_active_monitoring(user_monitoring, products) :
               /\ monitored_products' = rows
               /\ idx' = 1
               /\ pc' = "au_loop"
    /\ UNCHANGED <<dbVars, histVars, cfgVars, asyncVars, fetchVars, clockVars, cycle, errors>>

\* AUMonitor.check_all_monitored_products lines 59-89: one pass of the
\* for-loop (fetch, tracker, notification), or the loop's end
au_step ==
    /\ pc = "au_loop"
    /\ IF idx > Len(monitored_products)
       THEN /\ pc' = "app_wait"
            /\ UNCHANGED <<idx, stock_state, should_notify, trace,
                           notifications>>
       ELSE LET row == monitored_products[idx]
                p == row.product_id
                key == <<p, AU_REGION>> IN
            /\ pc' = pc
            /\ idx' = idx + 1
            /\ IF Falsy(row.au_link)
               THEN UNCHANGED <<stock_state, should_notify, trace,
                                notifications>>
               ELSE \E up \in LoopStoreUpstreams :
                    LET stock_info == AUMonitor_check_stock(row.au_link, up)
                        t0 == Append(trace, [op |-> "fetch", product |-> p,
                                             ok |-> stock_info.kind = "value"])
                    IN
                    IF StockInfoMissing(stock_info)
                    THEN /\ trace' = t0
                         /\ UNCHANGED <<stock_state, should_notify,
                                        notifications>>
                    ELSE LET answer == ShouldNotifyAnswer(stock_state, key,
                                                          stock_info.in_stock)
                             t1 == Append(t0, [op |-> "track", product |-> p,
                                               ok |-> TRUE])
                         IN
                         /\ should_notify' = answer
                         /\ stock_state' = ShouldNotifyUpdate(stock_state, key,
                                                              stock_info.in_stock)
                         /\ IF stock_info.in_stock /\ answer
                            THEN /\ trace' = Append(t1, [op |-> "notify",
                                        product |-> p, ok |-> TRUE])
                                 /\ \E ok \in [1..Len(get_product_subscribers(
                                                 user_monitoring, p)) -> BOOLEAN] :
                                      notifications' = Append(notifications,
                                          send_stock_notification(user_monitoring, p, ok))
                            ELSE /\ trace' = t1
                                 /\ UNCHANGED notifications
    /\ UNCHANGED <<products, user_monitoring, histVars, cfgVars, asyncVars, fetchVars, clockVars, cycle,
                   monitored_products, results, errors>>

NextApp ==
    \/ run_monitors_start
    \/ selenium_begin
    \/ selenium_evaluate_step
    \/ au_begin
    \/ au_step

SpecApp == InitApp /\ [][NextApp]_vars

\* Either program, started on a fresh database.
InitLoops == Init \/ InitApp

NextLoops == Next \/ NextApp

SpecLoops == InitLoops /\ [][NextLoops]_vars

\* ---------------------- monitor_au.py and monitor_global.py (asyncio loops)
\* db.get_all_active_monitors (module `database` of these scripts): the
\* active, unexpired monitors, one row per (user, product) monitor, each with
\* its product's columns; any order.
MonitorRow(prods, u, p) ==
    [user_id |-> u, product_id |-> p,
     global_link |-> prods[p].global_link, au_link |-> prods[p].au_link]

get_all_active_monitors(um, prods) ==
    {[i \in 1..Len(s) |-> MonitorRow(prods, s[i][1], s[i][2])] :
        s \in SetToSeqs({m \in Users \X Products : um[m] > 0})}

\* db.get_product_monitors (same module): the product's unexpired monitors
get_product_monitors(um, p) == SubscriberRows(um, p, 1)

\* telegram_bot.notify_users_about_stock: one message per monitor of the
\* product; the entry the call leaves in the journal
notify_users_about_stock(um, p, ok) ==
    LET monitors == get_product_monitors(um, p) IN
    [product |-> p, list_read |-> TRUE, recipients |-> monitors,
     attempted |-> monitors,
     success_count |-> Cardinality({i \in 1..Len(monitors) : ok[i]})]

AsyncProductTables ==
    {[p \in Products |->
        IF p = "A" THEN [global_link |-> g, au_link |-> a]
        ELSE [global_link |-> "url_spu", au_link |-> "url_other"]] :
        g \in {"", "url_path", "url_other"}, a \in {"", "url_other"}}

AsyncMonitoringTables ==
    {um \in [Users \X Products -> 0..1] :
        /\ um[<<"u1", "A">>] = 1
        /\ um[<<"u1", "B">>] = 0}

InitAsync ==
    /\ products \in AsyncProductTables
    /\ user_monitoring \in AsyncMonitoringTables
    /\ stock_state = [k \in Keys |-> "unknown"]
    /\ InitHist
    /\ InitNoAsync
    /\ InitNoFetch
    /\ InitNoClock
    /\ db = TRUE
    /\ BOT_TOKEN = TRUE
    /\ arg_token = FALSE
    /\ NOTIFICATION_BOT_TOKEN = FALSE
    /\ pc \in {"mau_idle", "mgl_idle"}
    /\ cycle = 0
    /\ monitored_products = <<>>
    /\ idx = 0
    /\ results = <<>>
    /\ should_notify = FALSE
    /\ trace = <<>>
    /\ notifications = <<>>
    /\ errors = 0

\* the observation a check leaves behind: a failed check leaves the last one
Observe(obs, p, c, ok, in_stock) ==
    IF ok THEN [obs EXCEPT ![p] = [cycle |-> c,
                                   observed |-> IF in_stock THEN "in" ELSE "out"]]
    ELSE obs

\* monitor_au.run_monitoring_loop line 99 with check_all_products lines
\* 84-85: a cycle starts and enumerates the monitors
monitor_au_check_all_products ==
    /\ pc = "mau_idle"
    /\ cycle < MaxCycles
    /\ cycle' = cycle + 1
    /\ trace' = <<>>
    /\ notifications' = <<>>
    /\ \E raises \in BOOLEAN :
          IF raises
          THEN /\ monitored_products' = <<>>
               /\ idx' = 0
               /\ pc' = "mau_sleep"
          ELSE \E rows \in get_all_active_monitors(user_monitoring, products) :
               /\ monitored_products' = rows
               /\ idx' = 1
               /\ pc' = "mau_loop"
    /\ UNCHANGED <<dbVars, histVars, cfgVars, asyncVars, fetchVars, clockVars, results,
                   should_notify, errors>>

\* monitor_au.check_product_async for the loop's next monitor (lines 88-89
\* and 66-80), or the loop's end
monitor_au_check_product_async ==
    /\ pc = "mau_loop"
    /\ IF idx > Len(monitored_products)
       THEN /\ pc' = "mau_sleep"
            /\ UNCHANGED <<idx, trace, notifications, lastObs>>
       ELSE LET monitor == monitored_products[idx]
                p == monitor.product_id IN
            /\ pc' = pc
            /\ idx' = idx + 1
            /\ IF Falsy(monitor.au_link)
               THEN UNCHANGED <<trace, notifications, lastObs>>
               ELSE \E up \in LoopStoreUpstreams :
                    LET in_stock == monitor_au_check_stock(monitor.au_link, up)
                        t0 == Append(trace, [op |-> "fetch", product |-> p,
                                             ok |-> in_stock.kind = "value"])
                    IN
                    /\ lastObs' = Observe(lastObs, p, cycle, in_stock.kind = "value",
                                          in_stock.in_stock)
                    /\ IF in_stock.kind = "value" /\ in_stock.in_stock
                       THEN /\ trace' = Append(t0, [op |-> "notify",
                                   product |-> p, ok |-> TRUE])
                            /\ \E ok \in [1..Len(get_product_monitors(
                                            user_monitoring, p)) -> BOOLEAN] :
                                 notifications' = Append(notifications,
                                     notify_users_about_stock(user_monitoring, p, ok))
                       ELSE /\ trace' = t0
                            /\ UNCHANGED notifications
    /\ UNCHANGED <<dbVars, histVars, cfgVars, fetchVars, clockVars, cycle,
                   monitored_products, results, should_notify, errors>>

\* monitor_au.run_monitoring_loop lines 103-105: the sleep
monitor_au_sleep ==
    /\ pc = "mau_sleep"
    /\ pc' = "mau_idle"
    /\ UNCHANGED <<dbVars, histVars, cfgVars, asyncVars, fetchVars, clockVars, cycle,
                   monitored_products, idx, results, should_notify, trace,
                   notifications, errors>>

\* monitor_global.run_monitoring_loop with check_all_products lines 302-305:
\* a cycle starts and enumerates the monitors
monitor_global_check_all_products ==
    /\ pc = "mgl_idle"
    /\ cycle < MaxCycles
    /\ cycle' = cycle + 1
    /\ trace' = <<>>
    /\ notifications' = <<>>
    /\ \E raises \in BOOLEAN :
          IF raises
          THEN /\ monitored_products' = <<>>
               /\ idx' = 0
               /\ pc' = "mgl_sleep"
          ELSE \E rows \in get_all_active_monitors(user_monitoring, products) :
               /\ monitored_products' = rows
               /\ idx' = 1
               /\ pc' = "mgl_loop"
    /\ UNCHANGED <<dbVars, histVars, cfgVars, asyncVars, fetchVars, clockVars, results,
                   should_notify, errors>>

\* monitor_global.check_all_products lines 310-382: one pass of the for-loop
\* (the inlined check of one monitor), or the loop's end
monitor_global_check_step ==
    /\ pc = "mgl_loop"
    /\ IF idx > Len(monitored_products)
       THEN /\ pc' = "mgl_sleep"
            /\ UNCHANGED <<idx, trace, notifications, lastObs>>
       ELSE LET monitor == monitored_products[idx]
                p == monitor.product_id
                product_id == extract_product_id_from_url(
                                  LinkText(monitor.global_link)) IN
            /\ pc' = pc
            /\ idx' = idx + 1
            /\ IF Falsy(monitor.global_link) \/ FalsyText(product_id)
               THEN UNCHANGED <<trace, notifications, lastObs>>
               ELSE \E up \in LoopApiUpstreams :
                    LET scan == ScanDetails(get_product_details(product_id, up))
                        t0 == Append(trace, [op |-> "fetch", product |-> p,
                                             ok |-> scan \in {"in", "out"}])
                    IN
                    /\ lastObs' = Observe(lastObs, p, cycle, scan \in {"in", "out"},
                                          scan = "in")
                    /\ IF scan = "in"
                       THEN /\ trace' = Append(t0, [op |-> "notify",
                                   product |-> p, ok |-> TRUE])
                            /\ \E ok \in [1..Len(get_product_monitors(
                                            user_monitoring, p)) -> BOOLEAN] :
                                 notifications' = Append(notifications,
                                     notify_users_about_stock(user_monitoring, p, ok))
                       ELSE /\ trace' = t0
                            /\ UNCHANGED notifications
    /\ UNCHANGED <<dbVars, histVars, cfgVars, fetchVars, clockVars, cycle,
                   monitored_products, results, should_notify, errors>>

\* monitor_global.run_monitoring_loop lines 399-401: the sleep
monitor_global_sleep ==
    /\ pc = "mgl_sleep"
    /\ pc' = "mgl_idle"
    /\ UNCHANGED <<dbVars, histVars, cfgVars, asyncVars, fetchVars, clockVars, cycle,
                   monitored_products, idx, results, should_notify, trace,
                   notifications, errors>>

NextAsync ==
    \/ monitor_au_check_all_products
    \/ monitor_au_check_product_async
    \/ monitor_au_sleep
    \/ monitor_global_check_all_products
    \/ monitor_global_check_step
    \/ monitor_global_sleep

SpecAsync == InitAsync /\ [][NextAsync]_vars

\* ------------------------------------------------- one call of a fetcher
Fetchers ==
    {"worker.check_product_http", "monitor_au.check_stock",
     "AUMonitor.check_stock", "monitor_global.make_api_request",
     "monitor_global.check_product_stock"}

\* a missing reference, an empty one, a URL / product id
References == {"None", "", "url_path"}

UpstreamsOf(f) ==
    IF f = "worker.check_product_http" THEN HtmlUpstreams
    ELSE IF f \in {"monitor_au.check_stock", "AUMonitor.check_stock"}
         THEN StoreUpstreams(MaxVariants)
         ELSE ApiUpstreams(MaxSkus)

InitFetch ==
    /\ products \in {[p \in Products |-> [global_link |-> "", au_link |-> ""]]}
    /\ user_monitoring = [m \in Users \X Products |-> 0]
    /\ stock_state = [k \in Keys |-> "unknown"]
    /\ InitHist
    /\ InitNoAsync
    /\ InitNoClock
    /\ db = TRUE
    /\ BOT_TOKEN = TRUE
    /\ arg_token = FALSE
    /\ NOTIFICATION_BOT_TOKEN = FALSE
    /\ pc = "call"
    /\ cycle = 0
    /\ monitored_products = <<>>
    /\ idx = 0
    /\ results = <<>>
    /\ should_notify = FALSE
    /\ trace = <<>>
    /\ notifications = <<>>
    /\ errors = 0
    /\ fetcher \in Fetchers
    /\ reference \in References
    /\ upstream \in UpstreamsOf(fetcher)
    /\ outcome = Pending

CallEnds ==
    /\ pc' = "done"
    /\ UNCHANGED <<dbVars, histVars, cfgVars, asyncVars, clockVars, fetcher, reference,
                   upstream, cycle, monitored_products, idx, results,
                   should_notify, trace, notifications, errors>>

\* worker.check_product_http: an ERROR result is its failure value
call_check_product_http ==
    /\ pc = "call"
    /\ fetcher = "worker.check_product_http"
    /\ LET r == check_product_http("A", reference, upstream) IN
       outcome' = [kind |-> IF r.status = "ERROR" THEN "failure" ELSE "value",
                   in_stock |-> r.in_stock]
    /\ CallEnds

\* monitor_au.check_stock: None is its failure value
call_monitor_au_check_stock ==
    /\ pc = "call"
    /\ fetcher = "monitor_au.check_stock"
    /\ LET r == monitor_au_check_stock(reference, upstream) IN
       outcome' = [kind |-> IF r.kind = "none" THEN "failure" ELSE r.kind,
                   in_stock |-> r.in_stock]
    /\ CallEnds

\* AUMonitor.check_stock: None is its failure value
call_AUMonitor_check_stock ==
    /\ pc = "call"
    /\ fetcher = "AUMonitor.check_stock"
    /\ LET r == AUMonitor_check_stock(reference, upstream) IN
       outcome' = [kind |-> IF r.kind = "none" THEN "failure" ELSE r.kind,
                   in_stock |-> r.in_stock]
    /\ CallEnds

\* monitor_global.make_api_request: the error dict is its failure value; any
\* other return value is the body the callers read the stock from
call_make_api_request ==
    /\ pc = "call"
    /\ fetcher = "monitor_global.make_api_request"
    /\ LET details == make_api_request(upstream) IN
       outcome' = [kind |-> IF details.error THEN "failure" ELSE "value",
                   in_stock |-> ScanDetails(details) = "in"]
    /\ CallEnds

\* monitor_global.check_product_stock: the reference is the product id
call_check_product_stock ==
    /\ pc = "call"
    /\ fetcher = "monitor_global.check_product_stock"
    /\ outcome' = [kind |-> "value",
                   in_stock |-> check_product_stock(reference, upstream)]
    /\ CallEnds

NextFetch ==
    \/ call_check_product_http
    \/ call_monitor_au_check_stock
    \/ call_AUMonitor_check_stock
    \/ call_make_api_request
    \/ call_check_product_stock

SpecFetch == InitFetch /\ [][NextFetch]_vars

\* ------------------------------------------------------ the loops' clock
\* worker.main and PopMartFastMonitor.run_monitoring_loop read time.time()
\* at the top of a cycle and again after it, then sleep. The cycle's work is
\* followed here only by how long it took and whether it raised; the sleep
\* lasts what time.sleep was asked for and the next cycle starts when it
\* returns. Time is counted in whole units.
MaxInterval == 3
MaxWork == 4

\* --interval is any int; the monitor's check_interval any number
Intervals == 0..MaxInterval
WorkTimes == 0..MaxWork

max(a, b) == IF a >= b THEN a ELSE b

\* the sleep is what is left of the interval
wait_time_unclamped(interval, elapsed) == interval - elapsed

\* wait_time = max(1, check_interval - elapsed)
wait_time(interval, elapsed) == max(1, interval - elapsed)

InitClock ==
    /\ products \in {[p \in Products |-> [global_link |-> "", au_link |-> ""]]}
    /\ user_monitoring = [m \in Users \X Products |-> 0]
    /\ stock_state = [k \in Keys |-> "unknown"]
    /\ InitHist
    /\ InitNoAsync
    /\ InitNoFetch
    /\ db = TRUE
    /\ BOT_TOKEN = TRUE
    /\ arg_token = FALSE
    /\ NOTIFICATION_BOT_TOKEN = FALSE
    /\ pc \in {"main_top", "fast_top"}
    /\ cycle = 0
    /\ monitored_products = <<>>
    /\ idx = 0
    /\ results = <<>>
    /\ should_notify = FALSE
    /\ trace = <<>>
    /\ notifications = <<>>
    /\ errors = 0
    /\ check_interval \in Intervals
    /\ now = 0
    /\ start_time = 0
    /\ starts = <<>>
    /\ sleeps = <<>>
    /\ utcoffset = 0

\* what a clock step leaves alone
ClockFrame ==
    UNCHANGED <<dbVars, histVars, cfgVars, asyncVars, fetchVars, monitored_products,
                idx, results, should_notify, trace, notifications, errors,
                check_interval, utcoffset>>

\* start_time = time.time() at the top of `while True`
LoopTop(top, running) ==
    /\ pc = top
    /\ cycle < MaxCycles
    /\ cycle' = cycle + 1
    /\ start_time' = now
    /\ starts' = Append(starts, now)
    /\ pc' = running
    /\ UNCHANGED <<now, sleeps>>
    /\ ClockFrame

\* the cycle's work takes its time and returns, or raises into the inner
\* `except Exception`, which logs
LoopCycle(running, returned, raised) ==
    /\ pc = running
    /\ \E d \in WorkTimes : now' = now + d
    /\ pc' \in {returned, raised}
    /\ UNCHANGED <<cycle, start_time, starts, sleeps>>
    /\ ClockFrame

\* elapsed = time.time() - start_time; time.sleep(wait_time)
LoopSleep(returned, raised, top) ==
    /\ pc \in {returned, raised}
    /\ LET elapsed == now - start_time
           wait == wait_time(check_interval, elapsed)
       IN  /\ sleeps' = Append(sleeps, [elapsed |-> elapsed, wait_time |-> wait,
                                        raised |-> (pc = raised)])
           /\ now' = now + wait
    /\ pc' = top
    /\ UNCHANGED <<cycle, start_time, starts>>
    /\ ClockFrame

\* except KeyboardInterrupt, anywhere in the loop
LoopInterrupt(positions) ==
    /\ pc \in positions
    /\ pc' = "stopped"
    /\ UNCHANGED <<cycle, now, start_time, starts, sleeps>>
    /\ ClockFrame

\* worker.main
main_loop_top == LoopTop("main_top", "main_cycle")

main_loop_cycle == LoopCycle("main_cycle", "main_returned", "main_raised")

main_loop_sleep == LoopSleep("main_returned", "main_raised", "main_top")

main_loop_interrupt ==
    LoopInterrupt({"main_top", "main_cycle", "main_returned", "main_raised"})

\* PopMartFastMonitor.run_monitoring_loop
run_monitoring_loop_top == LoopTop("fast_top", "fast_cycle")

run_monitoring_loop_cycle == LoopCycle("fast_cycle", "fast_returned", "fast_raised")

run_monitoring_loop_sleep == LoopSleep("fast_returned", "fast_raised", "fast_top")

run_monitoring_loop_interrupt ==
    LoopInterrupt({"fast_top", "fast_cycle", "fast_returned", "fast_raised"})

NextClock ==
    \/ main_loop_top
    \/ main_loop_cycle
    \/ main_loop_sleep
    \/ main_loop_interrupt
    \/ run_monitoring_loop_top
    \/ run_monitoring_loop_cycle
    \/ run_monitoring_loop_sleep
    \/ run_monitoring_loop_interrupt

SpecClock == InitClock /\ [][NextClock]_vars

\* ------------------------------------------------- the request signature
\* A Python value that can stand in a parameter mapping: None, a string, an
\* int, a dict or a list. A dict keeps its items in insertion order; the
\* text of a string or an int is a sequence of characters.
MaxParams == 2

JNone == [t |-> "none", s |-> <<>>, items |-> <<>>]

JStr(text) == [t |-> "str", s |-> text, items |-> <<>>]

JInt(digits) == [t |-> "int", s |-> digits, items |-> <<>>]

JDict(items) == [t |-> "dict", s |-> <<>>, items |-> items]

JList(elems) == [t |-> "list", s |-> <<>>, items |-> elems]

ParamKeys == {"a", "b", "c"}

NestedKeys == {"a", "b"}

\* the keys in the order of Python's sorted()
SortedKeys == <<"a", "b", "c">>

Scalars == {JNone, JStr(<<>>), JStr(<<"v">>), JInt(<<"1">>)}

\* every dict with at most n of the keys, each value from vals, in every
\* insertion order
DictsOver(keys, vals, n) ==
    {JDict(items) : items \in
        {q \in UNION {[1..m -> [k : keys, v : vals]] : m \in 0..n} :
            \A i, j \in 1..Len(q) : i # j => q[i].k # q[j].k}}

NestedDicts == DictsOver(NestedKeys, {JInt(<<"1">>)}, 2)

ParamValues ==
    Scalars \cup NestedDicts \cup {JList(<<>>)} \cup {JList(<<d>>) : d \in NestedDicts}

ParamMaps == DictsOver(ParamKeys, ParamValues, MaxParams)

Methods == {"get", "GET", "post"}

Timestamps == {"1700000000", "1700000001"}

\* str.lower on the method names
lower(method) == IF method = "GET" THEN "get" ELSE method

RECURSIVE Join(_, _)
\* sep.join(parts) for parts that are texts
Join(parts, sep) ==
    IF parts = <<>> THEN <<>>
    ELSE IF Len(parts) = 1 THEN parts[1]
    ELSE parts[1] \o sep \o Join(Tail(parts), sep)

RECURSIVE repr(_)
\* Python's repr of a value: a dict and a list are written in their own order
repr(v) ==
    IF v.t = "none" THEN <<"None">>
    ELSE IF v.t = "str" THEN <<"'">> \o v.s \o <<"'">>
    ELSE IF v.t = "int" THEN v.s
    ELSE IF v.t = "dict"
         THEN <<"{">> \o Join([i \in 1..Len(v.items) |->
                                 <<"'", v.items[i].k, "'", ": ">> \o repr(v.items[i].v)],
                              <<", ">>) \o <<"}">>
         ELSE <<"[">> \o Join([i \in 1..Len(v.items) |-> repr(v.items[i])],
                              <<", ">>) \o <<"]">>

\* str(value)
str(v) == IF v.t = "str" THEN v.s ELSE repr(v)

\* only None is left out
IsEmptyValue_none(v) == v.t = "none"

\* `value is not None and value != ""`, negated
IsEmptyValue(v) == v.t = "none" \/ (v.t = "str" /\ v.s = <<>>)

\* the get branch: the parameters that are not empty, each as str(value)
FilterParams(params) ==
    LET kept == SelectSeq(params.items, LAMBDA it : ~IsEmptyValue(it.v)) IN
    JDict([i \in 1..Len(kept) |-> [k |-> kept[i].k, v |-> JStr(str(kept[i].v))]])

RECURSIVE SortByKey(_, _)
\* the items in the order of the sorted keys
SortByKey(items, keys) ==
    IF keys = <<>> THEN <<>>
    ELSE SelectSeq(items, LAMBDA it : it.k = Head(keys)) \o SortByKey(items, Tail(keys))

RECURSIVE sort_object(_)
sort_object(obj) ==
    IF obj.t = "dict"
    THEN JDict(SortByKey([i \in 1..Len(obj.items) |->
                             [k |-> obj.items[i].k, v |-> sort_object(obj.items[i].v)]],
                         SortedKeys))
    ELSE IF obj.t = "list"
         THEN JList([i \in 1..Len(obj.items) |-> sort_object(obj.items[i])])
         ELSE obj

RECURSIVE dumps(_)
\* json.dumps(obj, separators=(',', ':'))
dumps(obj) ==
    IF obj.t = "none" THEN <<"null">>
    ELSE IF obj.t = "str" THEN <<"\"">> \o obj.s \o <<"\"">>
    ELSE IF obj.t = "int" THEN obj.s
    ELSE IF obj.t = "dict"
         THEN <<"{">> \o Join([i \in 1..Len(obj.items) |->
                                 <<"\"", obj.items[i].k, "\"", ":">>
                                     \o dumps(obj.items[i].v)],
                              <<",">>) \o <<"}">>
         ELSE <<"[">> \o Join([i \in 1..Len(obj.items) |-> dumps(obj.items[i])],
                              <<",">>) \o <<"]">>

\* generate_signature up to the string that is hashed
string_to_hash(params, timestamp, method) ==
    LET filtered_params == IF lower(method) = "get" THEN FilterParams(params)
                           ELSE params
        sorted_params == sort_object(filtered_params)
        json_string == dumps(sorted_params)
    IN  json_string \o <<"W_ak^moHpMla", timestamp>>

\* hashlib.md5(...).hexdigest(): a function of the text, followed as such
md5(text) == [md5_of |-> text]

\* monitor_global.generate_signature and test.generate_signature
generate_signature(params, timestamp, method) ==
    [string_to_hash |-> string_to_hash(params, timestamp, method),
     signature |-> md5(string_to_hash(params, timestamp, method))]

\* make_api_request, up to the request it sends
CLIENT_KEY == "rmdxjisjk7gwykcix"

RECURSIVE SetItem(_, _, _)
\* d[k] = v on a dict's items: the value of an existing key is replaced in
\* place, a new key goes to the end
SetItem(items, k, v) ==
    IF items = <<>> THEN <<[k |-> k, v |-> v]>>
    ELSE IF Head(items).k = k THEN <<[k |-> k, v |-> v]>> \o Tail(items)
    ELSE <<Head(items)>> \o SetItem(Tail(items), k, v)

\* the assignments of "s" and "t" are made on the caller's dict itself
CallerParamsAfter_aliased(params, request_params) == request_params

\* `request_params = params.copy()`: the assignments of "s" and "t" go to
\* the copy, the caller's dict is as it was
CallerParamsAfter(params, request_params) == params

\* x_sign = f"{md5(f'{timestamp},{client_key}')},{timestamp}"
x_sign(timestamp) == <<md5(<<timestamp, ",", CLIENT_KEY>>), ",", timestamp>>

\* monitor_global.make_api_request lines 54-93: `timestamp` is the one
\* reading str(int(time.time())); what goes out is request_params and the
\* headers
make_api_request_build(params, timestamp, method) ==
    LET signature == generate_signature(params, timestamp, method).signature
        request_params ==
            JDict(SetItem(SetItem(params.items, "s", JStr(<<signature>>)),
                          "t", JStr(<<timestamp>>)))
    IN  [request_params |-> request_params,
         x_sign |-> x_sign(timestamp),
         params_after |-> CallerParamsAfter(params, request_params)]

\* --------------------------------------------------- one call of a function
\* A function of the program is called once with one argument: `fetcher`
\* names it, `reference` is the argument and `outcome` what it returns.
InitQuiet ==
    /\ products \in {[p \in Products |-> [global_link |-> "", au_link |-> ""]]}
    /\ user_monitoring = [m \in Users \X Products |-> 0]
    /\ stock_state = [k \in Keys |-> "unknown"]
    /\ InitHist
    /\ InitNoAsync
    /\ InitNoClock
    /\ db = TRUE
    /\ BOT_TOKEN = TRUE
    /\ arg_token = FALSE
    /\ NOTIFICATION_BOT_TOKEN = FALSE
    /\ cycle = 0
    /\ monitored_products = <<>>
    /\ idx = 0
    /\ results = <<>>
    /\ should_notify = FALSE
    /\ trace = <<>>
    /\ notifications = <<>>
    /\ errors = 0

ArgumentsOf(f) ==
    IF f = "monitor_global.extract_product_id_from_url"
    THEN UrlTexts(MaxUrlLen) \cup {NoneText}
    ELSE [params : ParamMaps, timestamp : Timestamps, method : Methods]

InitPure ==
    /\ InitQuiet
    /\ pc = "call"
    /\ fetcher \in {"monitor_global.extract_product_id_from_url",
                    "monitor_global.generate_signature",
                    "monitor_global.make_api_request"}
    /\ reference \in ArgumentsOf(fetcher)
    /\ upstream = "none"
    /\ outcome = Pending

call_extract_product_id_from_url ==
    /\ pc = "call"
    /\ fetcher = "monitor_global.extract_product_id_from_url"
    /\ outcome' = extract_product_id_from_url(reference)
    /\ CallEnds

call_generate_signature ==
    /\ pc = "call"
    /\ fetcher = "monitor_global.generate_signature"
    /\ outcome' = generate_signature(reference.params, reference.timestamp,
                                     reference.method)
    /\ CallEnds

\* make_api_request builds its request from the caller's params and the
\* clock reading
call_make_api_request_build ==
    /\ pc = "call"
    /\ fetcher = "monitor_global.make_api_request"
    /\ outcome' = make_api_request_build(reference.params, reference.timestamp,
                                         reference.method)
    /\ CallEnds

NextPure ==
    \/ call_extract_product_id_from_url
    \/ call_generate_signature
    \/ call_make_api_request_build

SpecPure == InitPure /\ [][NextPure]_vars

\* ------------------------------------------------- one notification batch
\* Monitor rows are inserted, then one notification event for a product
\* comes: the subscriber list is read and the batch is sent, send by send.
\* `upstream` is the product of the event, `reference` the recipient list,
\* `trace` the sends made so far and `outcome` the count being kept.
MaxRows == 2

NoBatch == [sending |-> FALSE, success_count |-> 0, lookup_failed |-> FALSE]

InitBatch ==
    /\ products \in {[p \in Products |-> [global_link |-> "url_path", au_link |-> ""]]}
    /\ user_monitoring = [m \in Users \X Products |-> 0]
    /\ stock_state = [k \in Keys |-> "unknown"]
    /\ InitHist
    /\ InitNoAsync
    /\ InitNoClock
    /\ db = TRUE
    /\ BOT_TOKEN \in BOOLEAN
    /\ arg_token = FALSE
    /\ NOTIFICATION_BOT_TOKEN = TRUE
    /\ pc = "batch_idle"
    /\ cycle = 0
    /\ monitored_products = <<>>
    /\ idx = 0
    /\ results = <<>>
    /\ should_notify = FALSE
    /\ trace = <<>>
    /\ notifications = <<>>
    /\ errors = 0
    /\ fetcher = "none"
    /\ reference = <<>>
    /\ upstream = "none"
    /\ outcome = NoBatch

BatchFrame ==
    UNCHANGED <<products, stock_state, histVars, cfgVars, asyncVars, clockVars, cycle,
                monitored_products, results, should_notify, notifications, errors>>

\* Database.add_monitoring: with the user and the product found and the
\* balance sufficient a row is inserted, whether or not the user already has
\* one for the product; otherwise nothing changes
add_monitoring(user_id, product_id) ==
    /\ pc = "batch_idle"
    /\ user_monitoring[<<user_id, product_id>>] < MaxRows
    /\ \E sufficient \in BOOLEAN :
          user_monitoring' =
              IF sufficient
              THEN [user_monitoring EXCEPT ![<<user_id, product_id>>] = @ + 1]
              ELSE user_monitoring
    /\ UNCHANGED <<pc, idx, trace, fetchVars>>
    /\ BatchFrame

\* the batch stops at the first send that fails
NextRecipient_abort(i, n, ok) == IF ok THEN i + 1 ELSE n + 1

\* `for chat_id in chat_ids`: the next entry, whatever the send did
NextRecipient(i, n, ok) == i + 1

\* one pass of the for-loop of a batch, or its end
BatchLoop(loop) ==
    /\ pc = loop
    /\ IF idx > Len(reference)
       THEN /\ pc' = "batch_done"
            /\ UNCHANGED <<idx, trace, outcome>>
       ELSE \E ok \in BOOLEAN :
            /\ trace' = Append(trace, [op |-> "send", chat_id |-> reference[idx],
                                       ok |-> ok])
            /\ outcome' = [outcome EXCEPT !.success_count = IF ok THEN @ + 1 ELSE @]
            /\ idx' = NextRecipient(idx, Len(reference), ok)
            /\ pc' = pc
    /\ UNCHANGED <<user_monitoring, fetcher, reference, upstream>>
    /\ BatchFrame

\* the exception leaves the notifier and reaches its caller
AfterNotifierError_escapes == "batch_raised"

\* the `except Exception` around the notifier's whole body logs, and the
\* call returns
AfterNotifierError == "batch_done"

\* NotificationBot.send_stock_notification up to the call of
\* send_bulk_message: a failed subscriber lookup, or no subscribers, no batch
send_stock_notification_read(product_id) ==
    /\ pc = "batch_idle"
    /\ LET subscribers == get_product_subscribers(user_monitoring, product_id) IN
       \E lookup_raises \in BOOLEAN :
       IF lookup_raises
       THEN /\ reference' = <<>>
            /\ pc' = AfterNotifierError
            /\ outcome' = [NoBatch EXCEPT !.lookup_failed = TRUE]
       ELSE /\ reference' = subscribers
            /\ IF subscribers = <<>>
               THEN pc' = "batch_done" /\ outcome' = NoBatch
               ELSE pc' = "bulk_loop" /\ outcome' = [NoBatch EXCEPT !.sending = TRUE]
    /\ fetcher' = "NotificationBot.send_stock_notification"
    /\ upstream' = product_id
    /\ idx' = 1
    /\ UNCHANGED <<user_monitoring, trace>>
    /\ BatchFrame

\* NotificationBot.send_bulk_message with send_message, which returns False
\* for every exception
send_bulk_message_loop == BatchLoop("bulk_loop")

\* worker.send_notification up to its for-loop: no BOT_TOKEN, a failed
\* subscriber lookup or no subscribers, no batch
send_notification_read(product_id) ==
    /\ pc = "batch_idle"
    /\ LET subscribers == get_product_subscribers(user_monitoring, product_id) IN
       IF ~BOT_TOKEN
       THEN reference' = <<>> /\ pc' = "batch_done" /\ outcome' = NoBatch
       ELSE \E lookup_raises \in BOOLEAN :
            IF lookup_raises
            THEN /\ reference' = <<>>
                 /\ pc' = AfterNotifierError
                 /\ outcome' = [NoBatch EXCEPT !.lookup_failed = TRUE]
            ELSE /\ reference' = subscribers
                 /\ IF subscribers = <<>>
                    THEN pc' = "batch_done" /\ outcome' = NoBatch
                    ELSE pc' = "send_loop"
                         /\ outcome' = [NoBatch EXCEPT !.sending = TRUE]
    /\ fetcher' = "worker.send_notification"
    /\ upstream' = product_id
    /\ idx' = 1
    /\ UNCHANGED <<user_monitoring, trace>>
    /\ BatchFrame

\* worker.send_notification's for-loop: the inner try/except logs a failed
\* send and the loop goes on
send_notification_loop == BatchLoop("send_loop")

NextBatch ==
    \/ \E u \in Users, p \in Products : add_monitoring(u, p)
    \/ \E p \in Products : send_stock_notification_read(p)
    \/ send_bulk_message_loop
    \/ \E p \in Products : send_notification_read(p)
    \/ send_notification_loop

SpecBatch == InitBatch /\ [][NextBatch]_vars

\* ------------------------------------------------------ monitor expiry
\* Here user_monitoring is the table itself: its rows in insertion order,
\* each with the expiry_date that add_monitoring stored and, for reference,
\* the time it was created at. `now` is the time in UTC; the host's local
\* clock reads now + utcoffset.
MaxTime == 4

\* timedelta(days=30), in time units
Period == 2

UtcOffsets == {-1, 0, 1}

\* datetime.now(): the naive local time of the host
datetime_now(utc, offset) == utc + offset

\* SQLite's CURRENT_TIMESTAMP: the time in UTC
CURRENT_TIMESTAMP(utc) == utc

\* WHERE um.expiry_date > CURRENT_TIMESTAMP: the rows left per user and
\* product
Unexpired(rows, utc) ==
    [m \in Users \X Products |->
        Cardinality({i \in 1..Len(rows) :
            /\ rows[i].user_id = m[1]
            /\ rows[i].product_id = m[2]
            /\ rows[i].expiry_date > CURRENT_TIMESTAMP(utc)})]

InitExpiry ==
    /\ products \in {[p \in Products |-> [global_link |-> "url_path", au_link |-> ""]]}
    /\ user_monitoring = <<>>
    /\ stock_state = [k \in Keys |-> "unknown"]
    /\ InitHist
    /\ InitNoAsync
    /\ InitNoFetch
    /\ db = TRUE
    /\ BOT_TOKEN = TRUE
    /\ arg_token = FALSE
    /\ NOTIFICATION_BOT_TOKEN = FALSE
    /\ pc = "expiry_idle"
    /\ cycle = 0
    /\ monitored_products = <<>>
    /\ idx = 0
    /\ results = <<>>
    /\ should_notify = FALSE
    /\ trace = <<>>
    /\ notifications = <<>>
    /\ errors = 0
    /\ check_interval = 0
    /\ now = 0
    /\ start_time = 0
    /\ starts = <<>>
    /\ sleeps = <<>>
    /\ utcoffset \in UtcOffsets

ExpiryFrame ==
    UNCHANGED <<products, stock_state, histVars, cfgVars, asyncVars, fetchVars,
                results, should_notify, errors, check_interval, start_time, starts,
                sleeps, utcoffset>>

\* time passes
time_passes ==
    /\ now < MaxTime
    /\ now' = now + 1
    /\ UNCHANGED <<user_monitoring, pc, cycle, monitored_products, idx, trace,
                   notifications>>
    /\ ExpiryFrame

\* Database.add_monitoring with a sufficient balance: the row expires 30 days
\* after datetime.now()
add_monitoring_row(user_id, product_id) ==
    /\ Len(user_monitoring) < MaxRows
    /\ user_monitoring' = Append(user_monitoring,
          [user_id |-> user_id, product_id |-> product_id,
           expiry_date |-> datetime_now(now, utcoffset) + Period,
           created |-> now])
    /\ UNCHANGED <<now, pc, cycle, monitored_products, idx, trace, notifications>>
    /\ ExpiryFrame

\* worker.check_all_products: the enumeration, and the fetch of every row
\* that has a link
expiry_check_all_products ==
    /\ pc = "expiry_idle"
    /\ cycle < MaxCycles
    /\ cycle' = cycle + 1
    /\ monitored_products' \in
          get_all_active_monitoring(Unexpired(user_monitoring, now), products)
    /\ trace' = [i \in 1..Len(monitored_products') |->
                    [op |-> "fetch", product |-> monitored_products'[i].product_id,
                     at |-> now]]
    /\ notifications' = <<>>
    /\ idx' = 1
    /\ pc' = "expiry_notify"
    /\ UNCHANGED <<user_monitoring, now>>
    /\ ExpiryFrame

\* worker.notify_results with send_notification: for a result that is due,
\* the subscriber list is read and the batch sent
expiry_notify_results ==
    /\ pc = "expiry_notify"
    /\ IF idx > Len(monitored_products)
       THEN /\ pc' = "expiry_idle"
            /\ UNCHANGED <<idx, notifications>>
       ELSE /\ pc' = pc
            /\ idx' = idx + 1
            /\ \E due \in BOOLEAN :
                  notifications' =
                      IF due
                      THEN Append(notifications,
                             [product |-> monitored_products[idx].product_id,
                              recipients |-> get_product_subscribers(
                                  Unexpired(user_monitoring, now),
                                  monitored_products[idx].product_id),
                              at |-> now])
                      ELSE notifications
    /\ UNCHANGED <<user_monitoring, now, cycle, monitored_products, trace>>
    /\ ExpiryFrame

NextExpiry ==
    \/ time_passes
    \/ \E u \in Users, p \in Products : add_monitoring_row(u, p)
    \/ expiry_check_all_products
    \/ expiry_notify_results

SpecExpiry == InitExpiry /\ [][NextExpiry]_vars


\* ------------------------------------------- the admin's test checks
\* A test check is run on demand, at any moment of the monitors' schedule,
\* for a product id the admin types: one of the table or one the table does
\* not hold.
AdminProductIds == Products \cup {"Z"}

\* Database.get_product: the products row, or None
get_product(prods, product_id) ==
    IF product_id \in DOMAIN prods
    THEN [found |-> TRUE, global_link |-> prods[product_id].global_link,
          au_link |-> prods[product_id].au_link]
    ELSE [found |-> FALSE, global_link |-> "None", au_link |-> "None"]

\* the product id argument monitor_global.check_product_stock is given for
\* an extracted id
IdReference(product_id) == IF FalsyText(product_id) THEN "" ELSE "url_path"

\* `'In Stock' if in_stock else 'Out of Stock'`
StatusText(in_stock) == IF in_stock THEN "In Stock" ELSE "Out of Stock"

\* truth value of what monitor_au.check_stock returns: None is falsy, the
\* stock flag counts otherwise
Truthy(stock) == stock.kind = "value" /\ stock.in_stock

\* what a test check hands back: the entry per store ("absent" when the
\* store was not checked), the `success` flag of the monitor classes'
\* checks, whether the call raised, and the stores whose fetch failed
Report(global, au, success, raised, failed) ==
    [kind |-> "report", global |-> global, au |-> au, success |-> success,
     raised |-> raised, failed |-> failed]

\* the body admin_panel.test_stock and admin_panel.api_test_stock share
test_stock_results(product, upg, upa) ==
    LET product_id_global ==
            extract_product_id_from_url(LinkText(product.global_link))
        checked_global == ~Falsy(product.global_link) /\ ~FalsyText(product_id_global)
        checked_au == ~Falsy(product.au_link)
        in_stock_global == check_product_stock(IdReference(product_id_global), upg)
        in_stock_au == monitor_au_check_stock(product.au_link, upa)
    IN
    IF ~product.found THEN Report("absent", "absent", FALSE, TRUE, {})
    ELSE Report(IF checked_global THEN StatusText(in_stock_global) ELSE "absent",
                IF checked_au THEN StatusText(Truthy(in_stock_au)) ELSE "absent",
                TRUE, FALSE,
                {s \in {"global"} : checked_global
                    /\ get_product_stock_info(product_id_global, upg).status # "ok"}
                \cup {s \in {"au"} : checked_au /\ in_stock_au.kind # "value"})

\* AUMonitor.check_product
AUMonitor_check_product(au_link, up) ==
    IF Falsy(au_link) THEN Report("absent", "absent", FALSE, FALSE, {})
    ELSE LET stock_info == AUMonitor_check_stock(au_link, up) IN
         IF stock_info.kind # "value"
         THEN Report("absent", "absent", FALSE, FALSE, {"au"})
         ELSE Report("absent", StatusText(stock_info.in_stock), TRUE, FALSE, {})

\* PopMartFastMonitor.check_product: the same page reading as
\* SeleniumMonitor.check_product
PopMartFastMonitor_check_product(db_product_id, page) ==
    IF page \in {"driver_error", "title_timeout", "exception"}
    THEN [db_product_id |-> db_product_id, status |-> "ERROR", in_stock |-> FALSE]
    ELSE IF page = "add_to_cart"
         THEN [db_product_id |-> db_product_id, status |-> "IN STOCK",
               in_stock |-> TRUE]
         ELSE IF page = "notify_me"
              THEN [db_product_id |-> db_product_id, status |-> "OUT OF STOCK",
                    in_stock |-> FALSE]
              ELSE [db_product_id |-> db_product_id, status |-> "UNKNOWN",
                    in_stock |-> FALSE]

\* the body of check_product_stock, the same in SeleniumMonitor and
\* PopMartFastMonitor up to the page check it calls: `lookup_raises` is the
\* database lookup failing inside the method's try block
check_product_stock_report(product, lookup_raises, result) ==
    IF lookup_raises \/ ~product.found \/ Falsy(product.global_link)
    THEN Report("absent", "absent", FALSE, FALSE, {})
    ELSE IF result.status = "ERROR"
         THEN Report("absent", "absent", FALSE, FALSE, {"global"})
         ELSE Report(StatusText(result.in_stock), "absent", TRUE, FALSE, {})

\* SeleniumMonitor.check_product_stock
SeleniumMonitor_check_product_stock(prods, product_id, lookup_raises, page) ==
    check_product_stock_report(get_product(prods, product_id), lookup_raises,
        SeleniumMonitor_check_product(product_id, page))

\* PopMartFastMonitor.check_product_stock
PopMartFastMonitor_check_product_stock(prods, product_id, lookup_raises, page) ==
    check_product_stock_report(get_product(prods, product_id), lookup_raises,
        PopMartFastMonitor_check_product(product_id, page))

AdminChecks ==
    {"admin_panel.test_stock", "admin_panel.api_test_stock",
     "AUMonitor.check_product", "SeleniumMonitor.check_product_stock",
     "PopMartFastMonitor.check_product_stock"}

\* One test check is followed per run, made at any moment of the schedule:
\* a check is taken while no check's return value is on record.
AdminIdle == fetcher = "none"

\* what a test check leaves alone: everything but its own return value
AdminFrame ==
    UNCHANGED <<dbVars, histVars, cfgVars, asyncVars, clockVars, loopVars,
                upstream>>

\* admin_panel.test_stock
test_stock ==
    /\ AdminIdle
    /\ \E product_id \in AdminProductIds :
        /\ fetcher' = "admin_panel.test_stock"
        /\ reference' = product_id
        /\ outcome' \in {test_stock_results(get_product(products, product_id),
                                            upg, upa) :
                            upg \in LoopApiUpstreams, upa \in LoopStoreUpstreams}
    /\ AdminFrame

\* admin_panel.api_test_stock
api_test_stock ==
    /\ AdminIdle
    /\ \E product_id \in AdminProductIds :
        /\ fetcher' = "admin_panel.api_test_stock"
        /\ reference' = product_id
        /\ outcome' \in {test_stock_results(get_product(products, product_id),
                                            upg, upa) :
                            upg \in LoopApiUpstreams, upa \in LoopStoreUpstreams}
    /\ AdminFrame

\* the test check goes through the tracker as a poll does
admin_AUMonitor_check_product_tracked ==
    /\ AdminIdle
    /\ \E product_id \in Products, up \in LoopStoreUpstreams :
        LET report == AUMonitor_check_product(products[product_id].au_link, up) IN
        /\ fetcher' = "AUMonitor.check_product"
        /\ reference' = product_id
        /\ outcome' = report
        /\ stock_state' = IF report.success
                          THEN ShouldNotifyUpdate(stock_state, <<product_id, AU_REGION>>,
                                                  report.au = "In Stock")
                          ELSE stock_state
    /\ UNCHANGED <<products, user_monitoring, histVars, cfgVars, asyncVars,
                   clockVars, loopVars, upstream>>

\* AUMonitor.check_product, for the AU link of a product of the table
admin_AUMonitor_check_product ==
    /\ AdminIdle
    /\ \E product_id \in Products :
        /\ fetcher' = "AUMonitor.check_product"
        /\ reference' = product_id
        /\ outcome' \in {AUMonitor_check_product(products[product_id].au_link, up) :
                            up \in LoopStoreUpstreams}
    /\ AdminFrame

\* SeleniumMonitor.check_product_stock
admin_SeleniumMonitor_check_product_stock ==
    /\ AdminIdle
    /\ \E product_id \in AdminProductIds :
        /\ fetcher' = "SeleniumMonitor.check_product_stock"
        /\ reference' = product_id
        /\ outcome' \in {SeleniumMonitor_check_product_stock(
                             products, product_id, lookup_raises, page) :
                            lookup_raises \in BOOLEAN, page \in SeleniumPages}
    /\ AdminFrame

\* PopMartFastMonitor.check_product_stock
admin_PopMartFastMonitor_check_product_stock ==
    /\ AdminIdle
    /\ \E product_id \in AdminProductIds :
        /\ fetcher' = "PopMartFastMonitor.check_product_stock"
        /\ reference' = product_id
        /\ outcome' \in {PopMartFastMonitor_check_product_stock(
                             products, product_id, lookup_raises, page) :
                            lookup_raises \in BOOLEAN, page \in SeleniumPages}
    /\ AdminFrame

NextAdmin ==
    \/ test_stock
    \/ api_test_stock
    \/ admin_AUMonitor_check_product
    \/ admin_SeleniumMonitor_check_product_stock
    \/ admin_PopMartFastMonitor_check_product_stock
    \/ NextApp

\* the scheduled monitors of app.py with the admin's test checks run
\* between their steps
\* Product A has both links or none, B both; u1 holds a monitor of each
\* product and u2 one of B.
InitAdmin ==
    /\ InitApp
    /\ Falsy(products["A"].global_link) <=> Falsy(products["A"].au_link)
    /\ user_monitoring = [m \in Users \X Products |->
                             IF m = <<"u2", "A">> THEN 0 ELSE 1]

SpecAdmin == InitAdmin /\ [][NextAdmin]_vars


\* ----------------------------------- the loops with a failing tracker
\* Database.should_notify_stock_change raises (the database is locked, the
\* connection is lost) for the result the evaluation loop is at.

\* worker.notify_results line 143 raises: nothing in notify_results catches
\* it, so it ends the loop over the results and is caught by
\* check_all_products' except branch (lines 122-125)
notify_results_tracker_raises ==
    /\ pc = "evaluating"
    /\ idx <= Len(results)
    /\ ~SkipResult(results[idx])
    /\ trace' = Append(trace, [op |-> "track",
                               product |-> results[idx].db_product_id,
                               ok |-> FALSE])
    /\ errors' = errors + 1
    /\ pc' = AfterCycleError
    /\ UNCHANGED <<dbVars, histVars, cfgVars, asyncVars, fetchVars, clockVars,
                   cycle, monitored_products, idx, results, should_notify,
                   notifications>>

\* SeleniumMonitor.check_all_monitored_products line 332 raises: the
\* method's try/except (lines 346-349) ends the run and returns []
selenium_tracker_raises ==
    /\ pc = "sel_eval"
    /\ idx <= Len(results)
    /\ ~SkipResult(results[idx])
    /\ trace' = Append(trace, [op |-> "track",
                               product |-> results[idx].db_product_id,
                               ok |-> FALSE])
    /\ pc' = "au_begin"
    /\ UNCHANGED <<dbVars, histVars, cfgVars, asyncVars, fetchVars, clockVars,
                   cycle, monitored_products, idx, results, should_notify,
                   notifications, errors>>

\* AUMonitor.check_all_monitored_products line 76 raises after the fetch of
\* the row gave a stock_info: nothing catches it up to run_monitors' thread
au_tracker_raises ==
    /\ pc = "au_loop"
    /\ idx <= Len(monitored_products)
    /\ LET row == monitored_products[idx] IN
       /\ ~Falsy(row.au_link)
       /\ \E up \in LoopStoreUpstreams :
             /\ ~StockInfoMissing(AUMonitor_check_stock(row.au_link, up))
             /\ trace' = trace \o <<[op |-> "fetch", product |-> row.product_id,
                                     ok |-> TRUE],
                                    [op |-> "track", product |-> row.product_id,
                                     ok |-> FALSE]>>
    /\ pc' = "app_crashed"
    /\ UNCHANGED <<dbVars, histVars, cfgVars, asyncVars, fetchVars, clockVars,
                   cycle, monitored_products, idx, results, should_notify,
                   notifications, errors>>

NextFaults ==
    \/ notify_results_tracker_raises
    \/ selenium_tracker_raises
    \/ au_tracker_raises
    \/ NextLoops

SpecFaults == InitLoops /\ [][NextFaults]_vars


\* ---------------------------------------- the asyncio loops' clock
\* monitor_au.run_monitoring_loop and monitor_global.run_monitoring_loop
\* read no clock: after check_all_products they await
\* asyncio.sleep(CHECK_INTERVAL). `starts` records when each cycle began and
\* `sleeps` what each sleep was asked for.

\* config.CHECK_INTERVAL, the poll interval in seconds
CheckIntervals == 1..MaxInterval

InitAsyncClock ==
    /\ products \in {[p \in Products |-> [global_link |-> "", au_link |-> ""]]}
    /\ user_monitoring = [m \in Users \X Products |-> 0]
    /\ stock_state = [k \in Keys |-> "unknown"]
    /\ InitHist
    /\ InitNoAsync
    /\ InitNoFetch
    /\ db = TRUE
    /\ BOT_TOKEN = TRUE
    /\ arg_token = FALSE
    /\ NOTIFICATION_BOT_TOKEN = FALSE
    /\ pc \in {"mau_top", "mgl_top"}
    /\ cycle = 0
    /\ monitored_products = <<>>
    /\ idx = 0
    /\ results = <<>>
    /\ should_notify = FALSE
    /\ trace = <<>>
    /\ notifications = <<>>
    /\ errors = 0
    /\ check_interval \in CheckIntervals
    /\ now = 0
    /\ start_time = 0
    /\ starts = <<>>
    /\ sleeps = <<>>
    /\ utcoffset = 0

\* `await asyncio.sleep(CHECK_INTERVAL)`: the sleep is the whole interval,
\* whatever the cycle took
sleep_time(interval, elapsed) == interval

\* `while True:` comes round and check_all_products is awaited
AsyncLoopTop(top, running) ==
    /\ pc = top
    /\ cycle < MaxCycles
    /\ cycle' = cycle + 1
    /\ starts' = Append(starts, now)
    /\ pc' = running
    /\ UNCHANGED <<now, start_time, sleeps>>
    /\ ClockFrame

\* the sleep after the cycle, returned or raised
AsyncLoopSleep(returned, raised, top) ==
    /\ pc \in {returned, raised}
    /\ LET elapsed == now - starts[Len(starts)]
           wait == sleep_time(check_interval, elapsed)
       IN  /\ sleeps' = Append(sleeps, [elapsed |-> elapsed, wait_time |-> wait,
                                        raised |-> (pc = raised)])
           /\ now' = now + wait
    /\ pc' = top
    /\ UNCHANGED <<cycle, start_time, starts>>
    /\ ClockFrame

\* monitor_au.run_monitoring_loop
monitor_au_loop_top == AsyncLoopTop("mau_top", "mau_cycle")

monitor_au_loop_cycle == LoopCycle("mau_cycle", "mau_returned", "mau_raised")

monitor_au_loop_sleep == AsyncLoopSleep("mau_returned", "mau_raised", "mau_top")

\* monitor_global.run_monitoring_loop
monitor_global_loop_top == AsyncLoopTop("mgl_top", "mgl_cycle")

monitor_global_loop_cycle == LoopCycle("mgl_cycle", "mgl_returned", "mgl_raised")

monitor_global_loop_sleep == AsyncLoopSleep("mgl_returned", "mgl_raised", "mgl_top")

NextAsyncClock ==
    \/ monitor_au_loop_top
    \/ monitor_au_loop_cycle
    \/ monitor_au_loop_sleep
    \/ monitor_global_loop_top
    \/ monitor_global_loop_cycle
    \/ monitor_global_loop_sleep

SpecAsyncClock == InitAsyncClock /\ [][NextAsyncClock]_vars


\* ------------------------------------------- the thread-pool monitors
\* SeleniumMonitor and PopMartFastMonitor check_all_monitored_products with
\* their pool tasks followed step by step. `fetcher` is the monitor class,
\* `outcome` the pool tasks (one per product), `upstream` the dict
\* self.drivers (0: no entry) and `reference` every driver created so far,
\* with whether it was quit. A URL is the link itself.
PoolUrls == {"url_path", "url_spu"}

PoolProductTables ==
    {[p \in Products |->
        [global_link |-> IF p = "A" THEN "url_path" ELSE g, au_link |-> ""]] :
        g \in PoolUrls \cup {""}}

NoResult(p) == [db_product_id |-> p, status |-> "none", in_stock |-> FALSE]

IdleTask(p) == [at |-> "idle", driver |-> 0, result |-> NoResult(p)]

InitPool ==
    /\ products \in PoolProductTables
    /\ user_monitoring = [m \in Users \X Products |->
                             IF m[1] = "u1" THEN 1 ELSE 0]
    /\ stock_state = [k \in Keys |-> "unknown"]
    /\ InitHist
    /\ InitNoAsync
    /\ InitNoClock
    /\ db = TRUE
    /\ BOT_TOKEN = FALSE
    /\ arg_token = FALSE
    /\ NOTIFICATION_BOT_TOKEN = TRUE
    /\ pc = "pool_idle"
    /\ cycle = 0
    /\ monitored_products = <<>>
    /\ idx = 0
    /\ results = <<>>
    /\ should_notify = FALSE
    /\ trace = <<>>
    /\ notifications = <<>>
    /\ errors = 0
    /\ fetcher \in {"SeleniumMonitor", "PopMartFastMonitor"}
    /\ reference = <<>>
    /\ upstream = [u \in PoolUrls |-> 0]
    /\ outcome = [p \in Products |-> IdleTask(p)]

PoolFrame ==
    UNCHANGED <<products, user_monitoring, histVars, cfgVars, asyncVars,
                clockVars, fetcher, trace, errors>>

Running(task) == task.at \in {"queued", "creating", "created", "using"}

\* the loop thread goes on without waiting for its futures
PoolBarrier_none(tasks, rows) == TRUE

\* `[future.result() for future in futures]` (and the end of the `with
\* ThreadPoolExecutor` block): every task submitted has ended
PoolBarrier(tasks, rows) ==
    \A i \in 1..Len(rows) : ~Running(tasks[rows[i].product_id])

\* the method returns once the results are in
AfterCollect_deferred == "pool_idle"

\* the for-loop over the results follows in the same call
AfterCollect == "pool_eval"

RECURSIVE Collected(_, _)
\* the results of the tasks that have ended, in submission order
Collected(tasks, rows) ==
    IF rows = <<>> THEN <<>>
    ELSE IF tasks[Head(rows).product_id].at = "done"
         THEN <<tasks[Head(rows).product_id].result>> \o Collected(tasks, Tail(rows))
         ELSE Collected(tasks, Tail(rows))

\* check_all_monitored_products up to the submits: the enumeration and one
\* task per row with a global link
pool_begin ==
    /\ pc = "pool_idle"
    /\ cycle < MaxCycles
    /\ cycle' = cycle + 1
    /\ \E rows \in get_all_active_monitoring(user_monitoring, products) :
          /\ monitored_products' = LinkedRows(rows)
          /\ outcome' = [p \in Products |->
                IF \E i \in 1..Len(rows) :
                       rows[i].product_id = p /\ ~Falsy(rows[i].global_link)
                THEN [outcome[p] EXCEPT !.at = "queued"]
                ELSE outcome[p]]
    /\ pc' = "pool_wait"
    /\ idx' = 0
    /\ results' = <<>>
    /\ notifications' = <<>>
    /\ should_notify' = FALSE
    /\ UNCHANGED <<stock_state, reference, upstream>>
    /\ PoolFrame

\* check_product in a pool thread: `if url not in self.drivers`, and on a
\* hit `driver = self.drivers[url]` and driver.get(url)
task_lookup(p) ==
    /\ outcome[p].at = "queued"
    /\ LET url == products[p].global_link IN
       outcome' = [outcome EXCEPT ![p] =
                      IF upstream[url] = 0 THEN [@ EXCEPT !.at = "creating"]
                      ELSE [@ EXCEPT !.at = "using", !.driver = upstream[url]]]
    /\ UNCHANGED <<pc, cycle, monitored_products, idx, results, should_notify,
                   notifications, stock_state, reference, upstream>>
    /\ PoolFrame

\* `self.drivers[url] = self.create_driver()`, or the ERROR result when
\* create_driver raises
task_create(p) ==
    /\ outcome[p].at = "creating"
    /\ LET url == products[p].global_link IN
       \E created \in BOOLEAN :
          IF created
          THEN /\ reference' = Append(reference, [url |-> url, quit |-> FALSE])
               /\ upstream' = [upstream EXCEPT ![url] = Len(reference) + 1]
               /\ outcome' = [outcome EXCEPT ![p].at = "created"]
          ELSE /\ outcome' = [outcome EXCEPT ![p] =
                      [at |-> "done", driver |-> 0,
                       result |-> IF fetcher = "SeleniumMonitor"
                                  THEN SeleniumMonitor_check_product(p, "driver_error")
                                  ELSE PopMartFastMonitor_check_product(p, "driver_error")]]
               /\ UNCHANGED <<reference, upstream>>
    /\ UNCHANGED <<pc, cycle, monitored_products, idx, results, should_notify,
                   notifications, stock_state>>
    /\ PoolFrame

\* `driver = self.drivers[url]` after the driver was stored, and
\* driver.get(url)
task_read(p) ==
    /\ outcome[p].at = "created"
    /\ outcome' = [outcome EXCEPT ![p] =
                      [@ EXCEPT !.at = "using",
                                !.driver = upstream[products[p].global_link]]]
    /\ UNCHANGED <<pc, cycle, monitored_products, idx, results, should_notify,
                   notifications, stock_state, reference, upstream>>
    /\ PoolFrame

\* the page is read and check_product returns its result
task_finish(p) ==
    /\ outcome[p].at = "using"
    /\ \E page \in SeleniumPages \ {"driver_error"} :
          outcome' = [outcome EXCEPT ![p] =
              [at |-> "done", driver |-> 0,
               result |-> IF fetcher = "SeleniumMonitor"
                          THEN SeleniumMonitor_check_product(p, page)
                          ELSE PopMartFastMonitor_check_product(p, page)]]
    /\ UNCHANGED <<pc, cycle, monitored_products, idx, results, should_notify,
                   notifications, stock_state, reference, upstream>>
    /\ PoolFrame

\* the loop thread has every future's result
pool_collect ==
    /\ pc = "pool_wait"
    /\ PoolBarrier(outcome, monitored_products)
    /\ results' = Collected(outcome, monitored_products)
    /\ idx' = 1
    /\ pc' = AfterCollect
    /\ UNCHANGED <<cycle, monitored_products, should_notify, notifications,
                   stock_state, reference, upstream, outcome>>
    /\ PoolFrame

\* one pass of the for-loop over the results (tracker call and, where due,
\* the notification), or the loop's end and the return
pool_evaluate_step ==
    /\ pc = "pool_eval"
    /\ IF idx > Len(results)
       THEN /\ pc' = "pool_idle"
            /\ results' = <<>>
            /\ UNCHANGED <<idx, stock_state, should_notify, notifications, outcome>>
       ELSE LET r == results[idx]
                key == <<r.db_product_id, SELENIUM_REGION>> IN
            /\ pc' = pc
            /\ idx' = idx + 1
            /\ results' = results
            /\ outcome' = [outcome EXCEPT ![r.db_product_id] = IdleTask(r.db_product_id)]
            /\ IF SkipResult(r)
               THEN UNCHANGED <<stock_state, should_notify, notifications>>
               ELSE LET answer == ShouldNotifyAnswer(stock_state, key, r.in_stock) IN
                    /\ should_notify' = answer
                    /\ stock_state' = ShouldNotifyUpdate(stock_state, key, r.in_stock)
                    /\ IF r.in_stock /\ answer
                       THEN \E ok \in [1..Len(get_product_subscribers(
                                          user_monitoring, r.db_product_id)) -> BOOLEAN] :
                               notifications' = Append(notifications,
                                   send_stock_notification(user_monitoring,
                                                           r.db_product_id, ok))
                       ELSE UNCHANGED notifications
    /\ UNCHANGED <<cycle, monitored_products, reference, upstream>>
    /\ PoolFrame

\* PopMartFastMonitor.run_monitoring_loop: KeyboardInterrupt in the loop
\* thread, during a cycle or the sleep
pool_interrupt ==
    /\ fetcher = "PopMartFastMonitor"
    /\ pc \in {"pool_idle", "pool_wait", "pool_eval"}
    /\ pc' = "pool_cleanup"
    /\ UNCHANGED <<cycle, monitored_products, idx, results, should_notify,
                   notifications, stock_state, reference, upstream, outcome>>
    /\ PoolFrame

\* the finally block's for-loop: driver.quit() for every entry of
\* self.drivers, a failing quit being logged
pool_cleanup ==
    /\ pc = "pool_cleanup"
    /\ reference' = [d \in 1..Len(reference) |->
                        IF \E u \in PoolUrls : upstream[u] = d
                        THEN [reference[d] EXCEPT !.quit = TRUE]
                        ELSE reference[d]]
    /\ pc' = "pool_shutdown"
    /\ UNCHANGED <<cycle, monitored_products, idx, results, should_notify,
                   notifications, stock_state, upstream, outcome>>
    /\ PoolFrame

\* self.executor.shutdown(): returns when the tasks under way have ended
pool_shutdown ==
    /\ pc = "pool_shutdown"
    /\ \A p \in Products : ~Running(outcome[p])
    /\ pc' = "pool_returned"
    /\ UNCHANGED <<cycle, monitored_products, idx, results, should_notify,
                   notifications, stock_state, reference, upstream, outcome>>
    /\ PoolFrame

NextPool ==
    \/ pool_begin
    \/ \E p \in Products : task_lookup(p)
    \/ \E p \in Products : task_create(p)
    \/ \E p \in Products : task_read(p)
    \/ \E p \in Products : task_finish(p)
    \/ pool_collect
    \/ pool_evaluate_step
    \/ pool_interrupt
    \/ pool_cleanup
    \/ pool_shutdown

SpecPool == InitPool /\ [][NextPool]_vars


\* ------------------------------------------ a fetch that is not answered
\* One poll loop around one of the three HTTP fetchers, with the time a
\* request has been waiting (`now`, in seconds) and an upstream that answers
\* after a delay, refuses the connection, or never answers. `fetcher` is the
\* function that makes the request.
PollFetchers == {"monitor_au.check_stock", "monitor_global.make_api_request",
                 "worker.check_product_http"}

\* timeout=15 of worker.check_product_http
HTTP_TIMEOUT == 15

MaxDelay == 2

\* how long the model follows a request that has no timeout
MaxWait == 17

NoTimeout == [kind |-> "None", s |-> 0]

\* the timeout argument of the fetcher's requests.get / requests.post
request_timeout(f) ==
    IF f = "worker.check_product_http"
    THEN [kind |-> "seconds", s |-> HTTP_TIMEOUT]
    ELSE NoTimeout

PollUpstreams ==
    [net : {"ok", "conn_error"}, delay : 0..MaxDelay]
        \cup {[net |-> "silent", delay |-> 0]}

InitPoll ==
    /\ InitQuiet
    /\ pc = "poll_top"
    /\ fetcher \in PollFetchers
    /\ reference = "None"
    /\ upstream = [net |-> "none", delay |-> 0]
    /\ outcome = Pending

PollFrame ==
    UNCHANGED <<dbVars, cfgVars, histVars, asyncVars, monitored_products,
                results, should_notify, trace, notifications, errors,
                fetcher, reference, check_interval, start_time, starts,
                sleeps, utcoffset>>

\* the loop starts a cycle over the products
poll_cycle ==
    /\ pc = "poll_top"
    /\ cycle < MaxCycles
    /\ cycle' = cycle + 1
    /\ idx' = 1
    /\ pc' = "poll_fetch"
    /\ UNCHANGED <<now, upstream, outcome>>
    /\ PollFrame

\* requests.get(...) is sent for the next product of the cycle, or the
\* cycle is through and the loop goes to sleep
requests_get ==
    /\ pc = "poll_fetch"
    /\ IF idx > Cardinality(Products)
       THEN /\ pc' = "poll_sleep"
            /\ UNCHANGED <<now, upstream, outcome, idx>>
       ELSE /\ pc' = "poll_wait"
            /\ now' = 0
            /\ upstream' \in PollUpstreams
            /\ outcome' = Pending
            /\ UNCHANGED idx
    /\ UNCHANGED cycle
    /\ PollFrame

\* a second passes with the request unanswered
requests_wait ==
    /\ pc = "poll_wait"
    /\ IF upstream.net = "silent"
       THEN IF request_timeout(fetcher).kind = "seconds"
            THEN now < request_timeout(fetcher).s
            ELSE now < MaxWait
       ELSE now < upstream.delay
    /\ now' = now + 1
    /\ UNCHANGED <<pc, cycle, idx, upstream, outcome>>
    /\ PollFrame

\* the upstream answers or refuses: the fetcher returns its result, a
\* failure result when requests raised
requests_answer ==
    /\ pc = "poll_wait"
    /\ upstream.net # "silent"
    /\ now = upstream.delay
    /\ \E in_stock \in BOOLEAN :
          outcome' = IF upstream.net = "ok"
                     THEN [kind |-> "ok", in_stock |-> in_stock]
                     ELSE [kind |-> "failure", in_stock |-> FALSE]
    /\ idx' = idx + 1
    /\ pc' = "poll_fetch"
    /\ UNCHANGED <<cycle, now, upstream>>
    /\ PollFrame

\* requests raises Timeout once the timeout has run out; the fetcher's
\* except clause turns it into a failure result
requests_timed_out ==
    /\ pc = "poll_wait"
    /\ request_timeout(fetcher).kind = "seconds"
    /\ upstream.net = "silent"
    /\ now = request_timeout(fetcher).s
    /\ outcome' = [kind |-> "failure", in_stock |-> FALSE]
    /\ idx' = idx + 1
    /\ pc' = "poll_fetch"
    /\ UNCHANGED <<cycle, now, upstream>>
    /\ PollFrame

\* time.sleep / asyncio.sleep returns and the loop is at its top again
poll_sleep ==
    /\ pc = "poll_sleep"
    /\ pc' = "poll_top"
    /\ UNCHANGED <<cycle, idx, now, upstream, outcome>>
    /\ PollFrame

NextPoll ==
    \/ poll_cycle
    \/ requests_get
    \/ requests_wait
    \/ requests_answer
    \/ requests_timed_out
    \/ poll_sleep

\* time passes and a thread that can take a step takes it
SpecPoll == InitPoll /\ [][NextPoll]_vars /\ WF_vars(NextPoll)


\* ------------------------------------------------- balances and monitors
\* Database.add_monitoring with the users table (`reference`: the balance
\* of every user there is), the products' prices and the user_monitoring
\* rows. Amounts are whole numbers of the smallest unit. `trace` holds the
\* last call and `outcome` what it returned.
MaxBalance == 3
MaxPrice == 2
MaxCalls == 2

Balances == 0..MaxBalance
Prices == 0..MaxPrice

\* a user id that has no row in users
LedgerUserIds == Users \cup {"u0"}

\* cursor.fetchone() after SELECT balance / SELECT price: the row, or None
fetchone(table, id, column) ==
    IF id \in DOMAIN table
    THEN [found |-> TRUE, value |-> table[id][column]]
    ELSE [found |-> FALSE, value |-> 0]

\* the balance check passes whatever the balance
Insufficient_never(balance, price) == FALSE

\* `if user[0] < product[0]`
Insufficient(balance, price) == balance < price

InitLedger ==
    /\ products \in [Products -> [global_link : {"url_path"}, au_link : {""},
                                   price : Prices]]
    /\ user_monitoring = <<>>
    /\ stock_state = [k \in Keys |-> "unknown"]
    /\ InitHist
    /\ InitNoAsync
    /\ db = TRUE
    /\ BOT_TOKEN = TRUE
    /\ arg_token = FALSE
    /\ NOTIFICATION_BOT_TOKEN = FALSE
    /\ pc = "ledger"
    /\ cycle = 0
    /\ monitored_products = <<>>
    /\ idx = 0
    /\ results = <<>>
    /\ should_notify = FALSE
    /\ trace = <<>>
    /\ notifications = <<>>
    /\ errors = 0
    /\ fetcher = "none"
    /\ reference \in {[u \in Users |->
                          [balance |-> IF u = "u1" THEN b ELSE MaxBalance]] :
                          b \in Balances}
    /\ upstream = [net |-> "none"]
    /\ outcome = [success |-> FALSE, message |-> "none"]
    /\ check_interval = 0
    /\ now = 0
    /\ start_time = 0
    /\ starts = <<>>
    /\ sleeps = <<>>
    /\ utcoffset \in UtcOffsets

LedgerFrame ==
    UNCHANGED <<products, stock_state, histVars, cfgVars, asyncVars, fetcher,
                upstream, pc, monitored_products, idx, results, should_notify,
                notifications, errors, check_interval, start_time, starts,
                sleeps, utcoffset>>

\* Database.add_monitoring(user_id, product_id), as called by
\* SettingsBot.subscribe_to_product
Database_add_monitoring(user_id, product_id) ==
    /\ cycle < MaxCalls
    /\ cycle' = cycle + 1
    /\ trace' = <<[op |-> "add_monitoring", user_id |-> user_id,
                   product_id |-> product_id]>>
    /\ LET user == fetchone(reference, user_id, "balance")
           product == fetchone(products, product_id, "price") IN
       IF ~user.found \/ ~product.found
       THEN /\ outcome' = [success |-> FALSE, message |-> "User or product not found"]
            /\ UNCHANGED <<reference, user_monitoring>>
       ELSE IF Insufficient(user.value, product.value)
       THEN /\ outcome' = [success |-> FALSE, message |-> "Insufficient balance"]
            /\ UNCHANGED <<reference, user_monitoring>>
       ELSE /\ reference' = [reference EXCEPT ![user_id].balance = @ - product.value]
            /\ user_monitoring' = Append(user_monitoring,
                  [user_id |-> user_id, product_id |-> product_id,
                   expiry_date |-> datetime_now(now, utcoffset) + Period])
            /\ outcome' = [success |-> TRUE,
                           message |-> "Monitoring subscription added successfully"]
    /\ UNCHANGED now
    /\ LedgerFrame

\* time passes between two calls
ledger_time_passes ==
    /\ now < MaxTime
    /\ now' = now + 1
    /\ UNCHANGED <<user_monitoring, reference, outcome, trace, cycle>>
    /\ LedgerFrame

NextLedger ==
    \/ \E u \in LedgerUserIds, p \in AdminProductIds : Database_add_monitoring(u, p)
    \/ ledger_time_passes

SpecLedger == InitLedger /\ [][NextLedger]_vars


\* ------------------------------------------------ the settings bot's poll
\* SettingsBot.run with Telegram's update queue. `upstream` is the server:
\* the ids it has handed out and the updates it still holds; `outcome`
\* holds the bot's self.offset and whether the last handling raised;
\* `results` is the batch being worked through and `reference` counts how
\* often each update was handled.
MaxUpdates == 3

UpdateIds == 1..MaxUpdates

RECURSIVE Ascending(_)
\* the ids of a set as a list in ascending order
Ascending(S) ==
    IF S = {} THEN <<>>
    ELSE LET least == CHOOSE x \in S : \A y \in S : x <= y IN
         <<[update_id |-> least]>> \o Ascending(S \ {least})

\* getUpdates(offset): the server forgets every update below the offset and
\* answers with the ones it holds, oldest first
Unconfirmed(pending, offset) == {u \in pending : u >= offset}

\* the offset is set to the id just handled
NextOffset_same(offset, update_id) == update_id

\* `self.offset = max(self.offset, update_id + 1)`
NextOffset(offset, update_id) == max(offset, update_id + 1)

InitBot ==
    /\ InitQuiet
    /\ pc = "bot_poll"
    /\ fetcher = "none"
    /\ reference = [u \in UpdateIds |-> 0]
    /\ upstream = [issued |-> 0, pending |-> {}]
    /\ outcome = [offset |-> 0, raised |-> FALSE]

BotFrame ==
    UNCHANGED <<dbVars, cfgVars, histVars, asyncVars, clockVars, fetcher,
                monitored_products, should_notify, trace, notifications, errors>>

\* a user sends a message or presses a button: the server queues one more
\* update under the next id
telegram_update ==
    /\ upstream.issued < MaxUpdates
    /\ upstream' = [issued |-> upstream.issued + 1,
                    pending |-> upstream.pending \cup {upstream.issued + 1}]
    /\ UNCHANGED <<pc, cycle, idx, results, reference, outcome>>
    /\ BotFrame

\* run: `updates = self.get_updates()`, which answers with the updates from
\* the offset on (all of them or the first few), or with ok = False and an
\* empty result when the request failed
get_updates ==
    /\ pc = "bot_poll"
    /\ cycle < MaxCycles
    /\ cycle' = cycle + 1
    /\ \E ok \in BOOLEAN :
          IF ok
          THEN LET held == Unconfirmed(upstream.pending, outcome.offset)
                   batch == Ascending(held) IN
               /\ upstream' = [upstream EXCEPT !.pending = held]
               /\ \E n \in 0..Len(batch) : results' = SubSeq(batch, 1, n)
          ELSE /\ results' = <<>>
               /\ UNCHANGED upstream
    /\ idx' = 1
    /\ pc' = "bot_process"
    /\ UNCHANGED <<reference, outcome>>
    /\ BotFrame

\* run: one pass of `for update in updates.get("result", [])` with
\* process_update, whose handler may raise after the offset was set; or the
\* end of the batch
process_update ==
    /\ pc = "bot_process"
    /\ IF idx > Len(results)
       THEN /\ pc' = "bot_poll"
            /\ results' = <<>>
            /\ UNCHANGED <<idx, reference, outcome>>
       ELSE LET update_id == results[idx].update_id IN
            /\ \E raises \in BOOLEAN :
                  outcome' = [offset |-> NextOffset(outcome.offset, update_id),
                              raised |-> raises]
            /\ reference' = [reference EXCEPT ![update_id] = @ + 1]
            /\ idx' = idx + 1
            /\ UNCHANGED <<pc, results>>
    /\ UNCHANGED <<cycle, upstream>>
    /\ BotFrame

NextBot ==
    \/ telegram_update
    \/ get_updates
    \/ process_update

SpecBot == InitBot /\ [][NextBot]_vars


\* ------------------------------------------------ the database connection
\* database_setup.get_connection: `reference` is DATABASE_URL, `idx` the
\* local `retries`, `trace` what every connection attempt came to and
\* `outcome` what the call returned or raised.
RETRIES == 5

\* how many attempts the model follows at most
MaxAttempts == 7

DatabaseUrls == {"sqlite:///popmart.db", "postgresql://host/db"}

ConnectErrors == {"OperationalError: refused", "OperationalError: timeout"}

startswith_sqlite(url) == url = "sqlite:///popmart.db"

\* the count is left as it was
RetriesLeft_same(retries) == retries

\* `retries -= 1`
RetriesLeft(retries) == retries - 1

InitConnect ==
    /\ InitQuiet
    /\ pc = "connect_call"
    /\ fetcher = "database_setup.get_connection"
    /\ reference \in DatabaseUrls
    /\ upstream = [net |-> "none"]
    /\ outcome = [kind |-> "pending", attempt |-> 0, error |-> "none"]

ConnectFrame ==
    UNCHANGED <<dbVars, cfgVars, histVars, asyncVars, clockVars, fetcher,
                reference, upstream, cycle, monitored_products, results,
                should_notify, notifications, errors>>

\* the call: sqlite3.connect for an SQLite URL, else `retries = 5` and the
\* while-loop
get_connection ==
    /\ pc = "connect_call"
    /\ IF startswith_sqlite(reference)
       THEN /\ pc' = "connect_returned"
            /\ outcome' = [kind |-> "sqlite", attempt |-> 0, error |-> "none"]
            /\ UNCHANGED idx
       ELSE /\ pc' = IF RETRIES > 0 THEN "connect_try" ELSE "connect_returned"
            /\ idx' = RETRIES
            /\ UNCHANGED outcome
    /\ UNCHANGED trace
    /\ ConnectFrame

\* one pass of the loop: psycopg2.connect returns a connection (break and
\* return), or raises and retries is counted down, the error being raised
\* again when no retry is left
psycopg2_connect ==
    /\ pc = "connect_try"
    /\ Len(trace) < MaxAttempts
    /\ \E r \in {"ok"} \cup ConnectErrors :
          /\ trace' = Append(trace, r)
          /\ IF r = "ok"
             THEN /\ pc' = "connect_returned"
                  /\ outcome' = [kind |-> "connection", attempt |-> Len(trace) + 1,
                                 error |-> "none"]
                  /\ UNCHANGED idx
             ELSE /\ idx' = RetriesLeft(idx)
                  /\ IF idx' = 0
                     THEN /\ pc' = "connect_raised"
                          /\ outcome' = [kind |-> "raised", attempt |-> Len(trace) + 1,
                                         error |-> r]
                     ELSE /\ pc' = "connect_sleep"
                          /\ UNCHANGED outcome
    /\ ConnectFrame

\* time.sleep(1) is over and `while retries > 0` is tested again
connect_sleep ==
    /\ pc = "connect_sleep"
    /\ pc' = IF idx > 0 THEN "connect_try" ELSE "connect_returned"
    /\ UNCHANGED <<idx, trace, outcome>>
    /\ ConnectFrame

NextConnect ==
    \/ get_connection
    \/ psycopg2_connect
    \/ connect_sleep

\* the thread that called get_connection keeps running
SpecConnect == InitConnect /\ [][NextConnect]_vars /\ WF_vars(NextConnect)

\* -------------------------------------------------------------- fairness
\* The worker is the only thread of its process: whenever it can take a step
\* it takes one. The interrupt is the environment's and need not come.
\* Whether the loop goes round does not hang on who subscribes: the fair
\* worker is run with one subscriber per product.
InitLive ==
    /\ Init
    /\ \A m \in Users \X Products :
          user_monitoring[m] = IF m \in {<<"u1", "A">>, <<"u2", "B">>} THEN 1 ELSE 0

LiveSpec == InitLive /\ [][Next]_vars /\ WF_vars(WorkerStep)

\* ------------------------------------------------------------- properties
\* the operations of the running cycle, read off its trace
OpIndex(op, p) == {i \in 1..Len(trace) : trace[i].op = op /\ trace[i].product = p}

EnumeratedRows == {monitored_products[i] : i \in 1..Len(monitored_products)}

NotifyCalls(p) == {j \in 1..Len(notifications) : notifications[j].product = p}

ActiveUsers(p) == {u \in Users : user_monitoring[<<u, p>>] > 0}

\* observation i of a sequence is in stock and is the first one or follows an
\* out-of-stock observation
EdgeAt(obs, i) == obs[i] /\ (i = 1 \/ ~obs[i - 1])

\* C1: per (product, region) key the worker passes every successful
\* observation of the product's link to the tracker, once and in order, and
\* the tracker answers true exactly at the indices i where observation i is in
\* stock and i is the first observation or observation i-1 was out of stock.
C1_EdgeTriggered ==
    \A k \in Keys :
        /\ Len(callHist[k]) <= Len(obsHist[k])
        /\ (pc = "sleeping" => Len(callHist[k]) = Len(obsHist[k]))
        /\ \A i \in 1..Len(callHist[k]) :
              /\ callHist[k][i].observed = obsHist[k][i]
              /\ callHist[k][i].answer = EdgeAt(obsHist[k], i)

\* a key observed out of stock, in stock, in stock: answers false, true, false
C1_Witness ==
    \E k \in Keys :
        /\ obsHist[k] = <<FALSE, TRUE, TRUE>>
        /\ Len(callHist[k]) = 3
        /\ callHist[k][2].answer
        /\ ~callHist[k][3].answer

FetchFailed(p) == \E i \in OpIndex("fetch", p) : ~trace[i].ok
FetchOk(p) == \E i \in OpIndex("fetch", p) : trace[i].ok
Linked(p) == \E row \in EnumeratedRows : row.product_id = p /\ ~Falsy(row.global_link)
LastIsEdge(k) == obsHist[k] # <<>> /\ EdgeAt(obsHist[k], Len(obsHist[k]))

C7_CycleOrder ==
    /\ \A j \in 1..Len(trace) :
          LET p == trace[j].product IN
          /\ trace[j].op = "track" =>
                \E i \in OpIndex("fetch", p) : i < j /\ trace[i].ok
          /\ trace[j].op = "notify" =>
                /\ \E i \in OpIndex("fetch", p), t \in OpIndex("track", p) :
                      i < t /\ t < j /\ trace[i].ok
                /\ \E r \in Range(results) :
                      r.db_product_id = p /\ r.status # "ERROR" /\ r.in_stock
                /\ callHist[<<p, "GLOBAL">>] # <<>>
                /\ callHist[<<p, "GLOBAL">>][Len(callHist[<<p, "GLOBAL">>])].answer
    /\ \A p \in Products :
          /\ Cardinality(OpIndex("track", p)) <= 1
          /\ Cardinality(NotifyCalls(p)) = Cardinality(OpIndex("notify", p))
    /\ pc = "notifying" => should_notify
    /\ pc = "sleeping" =>
          \A row \in EnumeratedRows :
              LET p == row.product_id IN
              /\ ~Falsy(row.global_link) => OpIndex("fetch", p) # {}
              /\ FetchOk(p) => OpIndex("track", p) # {}
              /\ (FetchOk(p) /\ LastIsEdge(<<p, "GLOBAL">>)) => OpIndex("notify", p) # {}

\* a finished cycle whose trace reads fetch, tracker, notify for one product
C7_Witness ==
    /\ pc = "sleeping"
    /\ \E p \in Products :
          \E i \in OpIndex("fetch", p), t \in OpIndex("track", p),
             j \in OpIndex("notify", p) : i < t /\ t < j

\* the product a step calls the notifier for, if it calls it
Notifies(p) ==
    /\ Len(notifications') = Len(notifications) + 1
    /\ notifications'[Len(notifications')].product = p

\* C2: in the monitor_au and monitor_global loops notify_users_about_stock is
\* not called for a product whose previous successful observation, made in an
\* earlier cycle, was in stock as well: only the first of consecutive in-stock
\* cycles notifies, and a further call needs an out-of-stock observation in
\* between.
C2_OncePerTransition ==
    [][\A p \in Products :
          (pc \in {"mau_loop", "mgl_loop"} /\ Notifies(p)) =>
              ~(lastObs[p].observed = "in" /\ lastObs[p].cycle < cycle)]_vars

\* C5: in app.run_monitors a step of the Global-link monitor (SeleniumMonitor's
\* evaluation of its results) never changes the StockState of a product's AU
\* key, and a step of the AU-link monitor never changes that of its GLOBAL key.
C5_RegionsIndependent ==
    [][/\ pc = "sel_eval" =>
              \A p \in Products :
                  stock_state'[<<p, "AU">>] = stock_state[<<p, "AU">>]
       /\ pc = "au_loop" =>
              \A p \in Products :
                  stock_state'[<<p, "GLOBAL">>] = stock_state[<<p, "GLOBAL">>]]_vars

\* the trace entries a step adds
NewOps ==
    IF cycle' # cycle \/ pc = "au_begin" THEN trace'
    ELSE SubSeq(trace', Len(trace) + 1, Len(trace'))

\* C6: in the worker and in both monitors of app.py, a product whose fetch
\* failed in the running cycle gets no tracker call and no notification in it;
\* a step that records a failed fetch leaves every StockState as it was and
\* notifies nobody; and StockState changes only in a step that makes a tracker
\* call for that product after a successful fetch of it in the same cycle.
C6_FailedFetchFrame ==
    /\ [](\A p \in Products :
            FetchFailed(p) =>
                /\ OpIndex("track", p) = {}
                /\ OpIndex("notify", p) = {}
                /\ NotifyCalls(p) = {})
    /\ [][/\ (\E i \in 1..Len(NewOps) : NewOps[i].op = "fetch" /\ ~NewOps[i].ok) =>
                /\ stock_state' = stock_state
                /\ \A j \in 1..Len(NewOps) : NewOps[j].op # "notify"
          /\ \A k \in Keys :
                stock_state'[k] # stock_state[k] =>
                    \E i, j \in 1..Len(trace') :
                        /\ i < j
                        /\ j > Len(trace)
                        /\ trace'[i].op = "fetch"
                        /\ trace'[i].product = k[1]
                        /\ trace'[i].ok
                        /\ trace'[j].op = "track"
                        /\ trace'[j].product = k[1]]_vars

\* a finished cycle in which the fetch of a product failed while its stored
\* state, set in an earlier cycle, is still in-stock
C6_Witness ==
    /\ pc \in {"sleeping", "app_wait"}
    /\ \E k \in Keys :
          /\ FetchFailed(k[1])
          /\ ~FetchOk(k[1])
          /\ stock_state[k] = "in"

\* C8: a fetcher given a URL whose upstream answers with a status other than
\* 200 returns its failure value.
C8_Non200Fails ==
    (/\ pc = "done"
     /\ fetcher \in {"worker.check_product_http", "monitor_au.check_stock",
                     "AUMonitor.check_stock", "monitor_global.make_api_request"}
     /\ ~Falsy(reference)
     /\ upstream.net = "ok"
     /\ upstream.status_code # HTTP_OK)
        => outcome.kind = "failure"

\* C9: whatever the upstream does and whatever the reference is (missing and
\* empty included), the fetcher returns to its caller: no exception escapes.
C9_NoEscape == pc = "done" => outcome.kind # "raised"

\* C10: the worker leaves its poll loop only by the shutdown signal, also
\* after a cycle that raised; and, the worker being scheduled fairly, every
\* cycle of the loop is followed by the start of the next one unless the
\* signal comes.
C10_LoopGoesOn ==
    /\ [][(InLoop /\ ~InLoop') => pc' = "stopped"]_vars
    /\ \A c \in 0..(MaxCycles - 1) :
          (InLoop /\ cycle = c) ~> (cycle > c \/ pc = "stopped")

\* a cycle is running its fetches after an earlier cycle ended in an error
C10_Witness ==
    /\ pc = "fetching"
    /\ errors >= 1
    /\ cycle >= 2

\* C11: a worker cycle whose monitor enumeration fails ends at once, with an
\* empty result, no fetch, no tracker call, no StockState change and no
\* notification, and leaves the worker asleep in its loop; the sleep only
\* leads back to the loop's head, and every cycle started there with a
\* database handle enumerates the monitors afresh (or fails again).
C11_EnumFailureSkipsCycle ==
    /\ [][(pc = "idle" /\ errors' = errors + 1) =>
             /\ pc' = "sleeping"
             /\ monitored_products' = <<>>
             /\ results' = <<>>
             /\ trace' = <<>>
             /\ notifications' = <<>>
             /\ stock_state' = stock_state
             /\ callHist' = callHist]_vars
    /\ [][(pc = "sleeping" /\ pc' # pc) =>
             /\ pc' \in {"idle", "stopped"}
             /\ stock_state' = stock_state
             /\ trace' = trace
             /\ notifications' = notifications]_vars
    /\ [][(pc = "idle" /\ cycle' = cycle + 1 /\ db /\ errors' = errors) =>
             monitored_products' \in
                 get_all_active_monitoring(user_monitoring, products)]_vars

\* after a cycle that failed to enumerate, a later cycle has enumerated,
\* fetched and finished
C11_Witness ==
    /\ errors >= 1
    /\ cycle >= 2
    /\ pc = "sleeping"
    /\ monitored_products # <<>>
    /\ \E i \in 1..Len(trace) : trace[i].op = "fetch"

\* no poll cycle, fetch, tracker call, StockState change or notification yet
Untouched ==
    /\ cycle = 0
    /\ monitored_products = <<>>
    /\ results = <<>>
    /\ trace = <<>>
    /\ notifications = <<>>
    /\ stock_state = [k \in Keys |-> "unknown"]
    /\ callHist = [k \in Keys |-> <<>>]
    /\ obsHist = [k \in Keys |-> <<>>]

WorkerPcs ==
    {"start", "exit", "idle", "fetching", "evaluating", "notifying",
     "sleeping", "stopped", "fatal"}

AppPcs ==
    {"app_start", "app_no_token", "app_wait", "sel_eval", "au_begin",
     "au_loop", "app_crashed"}

\* C12: a worker started with neither --token nor BOT_TOKEN goes from its
\* start to sys.exit(1) and nowhere else, with no cycle, fetch, tracker call,
\* StockState change or notification; run_monitors started without
\* NOTIFICATION_BOT_TOKEN returns at once and never runs a monitor.
C12_NoTokenNoLoop ==
    /\ (pc \in WorkerPcs /\ ~arg_token /\ ~BOT_TOKEN) =>
           (pc \in {"start", "exit"} /\ Untouched)
    /\ (pc \in AppPcs /\ ~NOTIFICATION_BOT_TOKEN) =>
           (pc \in {"app_start", "app_no_token"} /\ Untouched)
    /\ pc \in WorkerPcs \cup AppPcs

\* a worker without any token has exited
C12_Witness == pc = "exit" /\ ~arg_token /\ ~BOT_TOKEN /\ Untouched


\* C13: in worker.main and PopMartFastMonitor.run_monitoring_loop the sleep
\* after a cycle is max(1, interval - elapsed): it is never shorter than one
\* unit, whether the cycle returned or raised, and the gap between two
\* consecutive cycle starts is the interval when the cycle's work took at
\* most interval - 1 units and elapsed + 1 otherwise.
C13_SleepCadence ==
    /\ Len(sleeps) \in {Len(starts), Len(starts) - 1}
    /\ \A i \in 1..Len(sleeps) :
          /\ sleeps[i].wait_time >= 1
          /\ sleeps[i].wait_time =
                IF check_interval - sleeps[i].elapsed >= 1
                THEN check_interval - sleeps[i].elapsed ELSE 1
    /\ \A i \in 1..(Len(starts) - 1) :
          starts[i + 1] - starts[i] =
             IF sleeps[i].elapsed <= check_interval - 1
             THEN check_interval ELSE sleeps[i].elapsed + 1

\* the loop has had a cycle that fitted in the interval and a later one
\* that raised after overrunning it
C13_Witness ==
    /\ Len(starts) = 3
    /\ check_interval >= 2
    /\ sleeps[1].elapsed <= check_interval - 1 /\ sleeps[1].elapsed >= 1
    /\ sleeps[2].elapsed > check_interval - 1 /\ sleeps[2].raised
    /\ pc \in {"main_cycle", "fast_cycle"}


\* the product detail holds a SKU record whose online stock count is above 0
SomeSkuStocked(body) ==
    \E i \in 1..Len(body.skus) :
        /\ body.skus[i].stock_kind = "object"
        /\ body.skus[i].online_kind = "int"
        /\ body.skus[i].online > 0

\* C14: given a product detail with a SKU list, the signed-API fetcher
\* reports in_stock = true exactly when some SKU record has an online stock
\* count above 0; SKU records without a stock record or without onlineStock
\* count as zero, and an empty list gives false.
C14_AnySkuInStock ==
    (/\ pc = "done"
     /\ fetcher = "monitor_global.check_product_stock"
     /\ ~Falsy(reference)
     /\ upstream.net = "ok"
     /\ upstream.status_code = HTTP_OK
     /\ upstream.body.shape = "object"
     /\ upstream.body.data_kind = "object"
     /\ upstream.body.skus_kind = "list")
        => outcome.in_stock = SomeSkuStocked(upstream.body)


\* C15: given a storefront answer with a variant list, check_stock reports
\* in_stock = true exactly when some variant has a true `available` flag,
\* whatever its inventory_quantity is (absent, null, zero, negative or
\* positive), and in_stock = false when no variant is available.
C15_AvailableWins ==
    (/\ pc = "done"
     /\ fetcher \in {"monitor_au.check_stock", "AUMonitor.check_stock"}
     /\ ~Falsy(reference)
     /\ upstream.net = "ok"
     /\ upstream.status_code = HTTP_OK
     /\ upstream.body.shape = "object"
     /\ upstream.body.variants_kind = "list")
        => /\ outcome.kind = "value"
           /\ outcome.in_stock =
                 \E i \in 1..Len(upstream.body.variants) :
                     upstream.body.variants[i].available = "true"


\* the digits s begins with
DigitRun(s) == UpTo(s, UrlTokens \ {"9"})

\* url has its first `marker` followed by the number n, which ends with the
\* text or at the separator `end`
HasForm(url, marker, end, n) ==
    /\ url # NoneText
    /\ \E i \in 1..Len(url) :
          /\ url[i] = marker
          /\ \A j \in 1..(i - 1) : url[j] # marker
          /\ LET rest == SubSeq(url, i + 1, Len(url)) IN
             /\ n # <<>>
             /\ DigitRun(rest) = n
             /\ (Len(rest) = Len(n) \/ rest[Len(n) + 1] = end)

\* the numbers a reference can hold
Numbers == {[i \in 1..m |-> "9"] : m \in 1..MaxUrlLen}

\* C16: extract_product_id_from_url returns N for a reference of the form
\* `?spuId=N` and for one of the form `/products/N/...`, returns None for
\* every other reference, and returns no id that is not made of digits only.
C16_NumericId ==
    (pc = "done" /\ fetcher = "monitor_global.extract_product_id_from_url") =>
        /\ \A n \in Numbers :
              HasForm(reference, "spuId=", "&", n) => outcome = n
        /\ \A n \in Numbers :
              (HasForm(reference, "/products/", "/", n)
                 /\ ~Contains(reference, "spuId=")) => outcome = n
        /\ outcome # NoneText => isdigit(outcome)


RECURSIVE Reorderings(_)
\* the values equal to v as mappings at every nesting level: every dict in v
\* with its items in any insertion order, lists in their own order
Reorderings(v) ==
    IF v.t \notin {"dict", "list"} THEN {v}
    ELSE LET n == Len(v.items)
             variants(i) ==
                 IF v.t = "dict"
                 THEN {[k |-> v.items[i].k, v |-> w] : w \in Reorderings(v.items[i].v)}
                 ELSE Reorderings(v.items[i])
             inner == {f \in [1..n -> UNION {variants(i) : i \in 1..n}] :
                          \A i \in 1..n : f[i] \in variants(i)}
         IN  IF v.t = "list" THEN {JList(f) : f \in inner}
             ELSE {JDict([i \in 1..n |-> f[pi[i]]]) :
                      f \in inner, pi \in Permutations(1..n)}

\* C17: generate_signature does not depend on key insertion order: parameter
\* mappings that are equal as mappings at every nesting level (dicts inside
\* values and inside lists included) give, for the same timestamp and the
\* same method, the same string to hash and the same signature.
C17_KeyOrderIndependent ==
    (pc = "done" /\ fetcher = "monitor_global.generate_signature") =>
        \A q \in Reorderings(reference.params) :
            generate_signature(q, reference.timestamp, reference.method) = outcome

\* items with item put in after the first n of them
InsertAt(items, n, item) ==
    SubSeq(items, 1, n) \o <<item>> \o SubSeq(items, n + 1, Len(items))

\* items without the i-th
RemoveAt(items, i) == SubSeq(items, 1, i - 1) \o SubSeq(items, i + 1, Len(items))

\* the mappings that differ from params by one parameter whose value is None
\* or the empty string: one more of them, at any place, or one fewer
OneEmptyParamAway(params) ==
    LET items == params.items
        used == {items[i].k : i \in 1..Len(items)} IN
    {JDict(InsertAt(items, n, [k |-> k, v |-> e])) :
        n \in 0..Len(items), k \in ParamKeys \ used, e \in {JNone, JStr(<<>>)}}
    \cup {JDict(RemoveAt(items, i)) :
            i \in {j \in 1..Len(items) : items[j].v \in {JNone, JStr(<<>>)}}}

\* C18: for method get a parameter whose value is None or the empty string
\* does not count: adding or removing one leaves the signature as it is; for
\* method post every parameter is in the string that is hashed: adding or
\* removing an empty-valued parameter changes that string.
C18_EmptyParams ==
    (pc = "done" /\ fetcher = "monitor_global.generate_signature") =>
        \A q \in OneEmptyParamAway(reference.params) :
            IF reference.method \in {"get", "GET"}
            THEN generate_signature(q, reference.timestamp, reference.method) = outcome
            ELSE string_to_hash(q, reference.timestamp, reference.method)
                    # outcome.string_to_hash

\* a get signature was made of two parameters, one with the empty string and
\* one with a value
C18_Witness ==
    /\ pc = "done"
    /\ fetcher = "monitor_global.generate_signature"
    /\ reference.method = "get"
    /\ Len(reference.params.items) = 2
    /\ reference.params.items[1].v = JStr(<<>>)
    /\ reference.params.items[2].v = JStr(<<"v">>)
    /\ outcome.string_to_hash =
          <<"{", "\"", reference.params.items[2].k, "\"", ":", "\"", "v", "\"", "}",
            "W_ak^moHpMla", reference.timestamp>>


\* C19: in one notification batch one send is attempted for each entry of
\* the recipient list, in list order, whether or not earlier sends failed,
\* and the count kept is the number of sends that succeeded, between 0 and
\* the length of the list.
C19_BatchAttemptsAll ==
    (pc \in {"bulk_loop", "send_loop", "batch_done"} /\ outcome.sending) =>
        /\ Len(trace) <= Len(reference)
        /\ \A i \in 1..Len(trace) :
              trace[i].op = "send" /\ trace[i].chat_id = reference[i]
        /\ pc \in {"bulk_loop", "send_loop"} => Len(trace) = idx - 1
        /\ pc = "batch_done" => Len(trace) = Len(reference)
        /\ outcome.success_count = Cardinality({i \in 1..Len(trace) : trace[i].ok})
        /\ outcome.success_count >= 0
        /\ outcome.success_count <= Len(reference)

\* a batch has ended whose first send failed and whose second succeeded
C19_Witness ==
    /\ pc = "batch_done"
    /\ outcome.sending
    /\ Len(reference) >= 2
    /\ ~trace[1].ok
    /\ trace[2].ok
    /\ outcome.success_count = 1

\* C20: on one notification event for a product each subscribed user gets
\* exactly one message, also a user who holds several active monitor rows
\* for the product.
C20_OneMessagePerUser ==
    (pc = "batch_done" /\ outcome.sending) =>
        \A u \in Users :
            user_monitoring[<<u, upstream>>] >= 1 =>
                Cardinality({i \in 1..Len(trace) : trace[i].chat_id = u}) = 1


\* user u holds a monitor row for product p that has not run out at time t:
\* it was created less than the monitoring period before t
HoldsMonitorAt(u, p, t) ==
    \E i \in 1..Len(user_monitoring) :
        /\ user_monitoring[i].user_id = u
        /\ user_monitoring[i].product_id = p
        /\ user_monitoring[i].created + Period > t

\* C21: a product is fetched in a cycle only if at enumeration time some
\* monitor of it has its expiry in the future, and a notification goes only
\* to users who hold an unexpired monitor of the product when the subscriber
\* list is read.
C21_OnlyUnexpired ==
    pc \in {"expiry_idle", "expiry_notify"} =>
        /\ \A i \in 1..Len(trace) :
              \E u \in Users : HoldsMonitorAt(u, trace[i].product, trace[i].at)
        /\ \A i \in 1..Len(notifications) :
              \A j \in 1..Len(notifications[i].recipients) :
                  HoldsMonitorAt(notifications[i].recipients[j],
                                 notifications[i].product, notifications[i].at)

\* C22: a step that is an admin test check (it sets the check's return value)
\* leaves the database with its StockState, the tracker's call history and
\* every variable of the poll loop (its position, results, trace and
\* notifications) as they were; and a step of the poll loop does not read or
\* set what the test checks return. So the notifications of a run are those
\* of the same run with the test checks taken out.
AdminVars == <<fetcher, reference, outcome>>
PollVars == <<dbVars, histVars, cfgVars, asyncVars, clockVars, loopVars>>

C22_AdminCheckFrame ==
    [][(AdminVars' # AdminVars => PollVars' = PollVars)
       /\ (stock_state' # stock_state => AdminVars' = AdminVars)]_vars

\* a test check has reported a stock status while the poll loop was between
\* two results of a run, with a baseline on record for that product
C22_Witness ==
    /\ pc = "sel_eval"
    /\ fetcher \in AdminChecks
    /\ outcome.kind = "report"
    /\ outcome.success
    /\ reference \in Products
    /\ \E r \in Regions : stock_state[<<reference, r>>] # "unknown"

\* C23: once the startup check has let the worker into its loop, the db
\* handle is there for check_all_products, and every send_notification call
\* got a bot token and went on to read the subscriber list, also when the
\* token was given with --token only.
C23_ConfiguredInLoop ==
    InLoop =>
        /\ db
        /\ \A i \in 1..Len(notifications) : notifications[i].list_read

\* C24: no error inside a scheduled monitor run ends run_monitors'
\* scheduling loop: the loop is never left through an exception, so after
\* every run it is back waiting for the next tick.
C24_SchedulerSurvives == pc # "app_crashed"

\* C25: when a run of an evaluation loop has ended and the tracker call for
\* a product A failed in it, every other product B of the run was still
\* evaluated: in worker.notify_results and SeleniumMonitor, every B whose
\* fetch succeeded has its tracker call; in AUMonitor, every other row with
\* an AU link was still checked.
TrackFailedAt(i) == trace[i].op = "track" /\ ~trace[i].ok

Reached(op, p) == \E k \in 1..Len(trace) : trace[k].op = op /\ trace[k].product = p

C25_EvaluationIsolated ==
    /\ pc \in {"sleeping", "au_begin"} =>
          \A i \in 1..Len(trace) : TrackFailedAt(i) =>
              \A j \in 1..Len(trace) :
                  (trace[j].op = "fetch" /\ trace[j].ok
                      /\ trace[j].product # trace[i].product)
                  => Reached("track", trace[j].product)
    /\ pc \in {"app_wait", "app_crashed"} =>
          \A i \in 1..Len(trace) : TrackFailedAt(i) =>
              \A r \in 1..Len(monitored_products) :
                  (~Falsy(monitored_products[r].au_link)
                      /\ monitored_products[r].product_id # trace[i].product)
                  => Reached("fetch", monitored_products[r].product_id)

\* C26: in monitor_au.run_monitoring_loop and monitor_global.run_monitoring_loop
\* the gap between two consecutive cycle starts is the interval whenever the
\* cycle's work fitted in it, however long the work took.
C26_FixedCadence ==
    \A i \in 1..(Len(starts) - 1) :
        sleeps[i].elapsed <= check_interval - 1
            => starts[i + 1] - starts[i] = check_interval

\* the product detail holds, under `goods`, a record whose online stock
\* count is above 0, and no record of it has a null stock entry
GoodsStocked(body) ==
    /\ body.goods_kind = "list"
    /\ \E i \in 1..Len(body.goods) : SkuOnlineStock(body.goods[i]) > 0
    /\ \A i \in 1..Len(body.goods) : ~SkuRaises(body.goods[i])

\* C27: a product detail whose `skus` list is missing or empty and whose
\* `goods` list holds a record with online stock above 0 is reported by the
\* signed-API fetcher as in_stock = true.
C27_GoodsShapeAccepted ==
    (/\ pc = "done"
     /\ fetcher = "monitor_global.check_product_stock"
     /\ ~Falsy(reference)
     /\ upstream.net = "ok"
     /\ upstream.status_code = HTTP_OK
     /\ upstream.body.shape = "object"
     /\ upstream.body.data_kind = "object"
     /\ upstream.body.skus = <<>>
     /\ upstream.body.skus_kind \in {"absent", "list"}
     /\ upstream.body.brand_kind # "null"
     /\ GoodsStocked(upstream.body))
        => outcome.in_stock

\* the value a dict's items hold for key k, for items that hold k
ItemOf(items, k) == (CHOOSE i \in 1..Len(items) : items[i].k = k)

RECURSIVE Without(_, _)
\* a dict's items without those of the keys ks
Without(items, ks) ==
    IF items = <<>> THEN <<>>
    ELSE IF Head(items).k \in ks THEN Without(Tail(items), ks)
    ELSE <<Head(items)>> \o Without(Tail(items), ks)

\* C28: the request make_api_request builds carries `s`, `t` and `x-sign`,
\* all made from the one timestamp: t is the timestamp, s the signature of
\* the caller's params (as given, without s and t) with that timestamp, and
\* x-sign the hash of `timestamp,client_key` followed by `,timestamp`; the
\* other request parameters are the caller's, and the caller's mapping is
\* after the call what it was before.
C28_RequestSigned ==
    (pc = "done" /\ fetcher = "monitor_global.make_api_request") =>
        LET sent == outcome.request_params.items
            ts == sent[ItemOf(sent, "t")].v.s[1]
        IN  /\ \E i \in 1..Len(sent) : sent[i].k = "s"
            /\ \E i \in 1..Len(sent) : sent[i].k = "t"
            /\ ts = reference.timestamp
            /\ sent[ItemOf(sent, "s")].v =
                  JStr(<<md5(string_to_hash(JDict(Without(sent, {"s", "t"})), ts,
                                            reference.method))>>)
            /\ outcome.x_sign = <<md5(<<ts, ",", CLIENT_KEY>>), ",", ts>>
            /\ Without(sent, {"s", "t"}) = reference.params.items
            /\ outcome.params_after = reference.params

\* a request was built for a get call with two parameters, one of them
\* empty, and went out with four
C28_Witness ==
    /\ pc = "done"
    /\ fetcher = "monitor_global.make_api_request"
    /\ reference.method = "get"
    /\ Len(reference.params.items) = 2
    /\ reference.params.items[1].v = JStr(<<>>)
    /\ Len(outcome.request_params.items) = 4
    /\ outcome.request_params.items[4].k = "t"

\* C29: a notifier call never ends in an exception at its caller: it is
\* under way or has returned, also after a failed subscriber lookup and
\* after failed sends; when the lookup failed or gave no subscribers no send
\* was attempted, and a batch that has returned went through its whole list
\* however many sends failed.
C29_NotifierContained ==
    /\ pc \in {"batch_idle", "bulk_loop", "send_loop", "batch_done"}
    /\ (pc = "batch_done" /\ ~outcome.sending) => trace = <<>>
    /\ (pc = "batch_done" /\ outcome.sending) => Len(trace) = Len(reference)

\* a notifier call has returned after its subscriber lookup failed, with
\* monitor rows in the table for the product
C29_Witness ==
    /\ pc = "batch_done"
    /\ outcome.lookup_failed
    /\ fetcher \in {"NotificationBot.send_stock_notification",
                    "worker.send_notification"}
    /\ \E u \in Users : user_monitoring[<<u, upstream>>] >= 1

\* C30: when the fetch for a store of the product failed, the report of
\* admin_panel.test_stock / api_test_stock does not give that store as
\* 'Out of Stock'.
C30_FailureNotOutOfStock ==
    fetcher \in {"admin_panel.test_stock", "admin_panel.api_test_stock"} =>
        /\ "global" \in outcome.failed => outcome.global # "Out of Stock"
        /\ "au" \in outcome.failed => outcome.au # "Out of Stock"

\* C31: the fetch of a product is submitted for a cycle only when the
\* product's task is at rest, that is when the result of its previous fetch,
\* if there was one, has gone through the evaluation loop (StockState
\* updated); and it is submitted only between two runs of the loop thread.
C31_UpdateBeforeNextFetch ==
    [][\A p \in Products :
          (outcome'[p].at = "queued" /\ outcome[p].at # "queued")
              => (outcome[p].at = "idle" /\ pc = "pool_idle")]_vars

\* the second cycle's fetch of A is under way, and the first cycle's result
\* for A has put A's StockState at in stock
C31_Witness ==
    /\ cycle = 2
    /\ outcome["A"].at = "using"
    /\ stock_state[<<"A", SELENIUM_REGION>>] = "in"

\* C32: StockState is written only by a pass of the loop thread's
\* evaluation loop, one tracker call per pass, and whenever the loop thread
\* is in that loop no pool task is under way: every fetch task of the cycle
\* has ended before the first tracker call, and the calls follow one another.
C32_TrackerCallsSerial ==
    [][/\ pc' = "pool_eval" => \A p \in Products : ~Running(outcome'[p])
       /\ stock_state' # stock_state =>
             /\ pc = "pool_eval"
             /\ idx' = idx + 1
             /\ \A p \in Products : ~Running(outcome[p])]_vars

\* two fetch tasks have ended, the tracker call for the first result has
\* been made and the call for the second is still to come
C32_Witness ==
    /\ pc = "pool_eval"
    /\ Len(results) = 2
    /\ idx = 2
    /\ stock_state[<<results[1].db_product_id, SELENIUM_REGION>>] # "unknown"
    /\ stock_state[<<results[2].db_product_id, SELENIUM_REGION>>] = "unknown"

\* C34: once run_monitoring_loop has returned after the shutdown signal,
\* quit() has been called on every browser driver the monitor created.
C34_DriversQuitOnShutdown ==
    pc = "pool_returned" => \A d \in 1..Len(reference) : reference[d].quit

\* C35: no URL has two drivers created for it, and no driver is in use by
\* two fetch tasks at the same time.
C35_OneDriverOneTask ==
    /\ \A i, j \in 1..Len(reference) :
          reference[i].url = reference[j].url => i = j
    /\ \A p, q \in Products :
          (/\ outcome[p].at = "using"
           /\ outcome[q].at = "using"
           /\ outcome[p].driver = outcome[q].driver) => p = q

\* C33: a fetch that has been sent always ends, so the cycle it belongs to
\* reaches the loop's sleep, whatever the upstream does.
C33_CycleCompletes == (pc = "poll_wait") ~> (pc = "poll_sleep")

\* C36: a result with status UNKNOWN is not recorded as out of stock: when
\* the evaluation loop comes to an UNKNOWN result of a product whose
\* StockState is in stock, the StockState stays in stock (so that the next
\* in-stock result is not a new transition and is not notified again).
C36_UnknownNotRecorded ==
    [][\A p \in Products :
          (/\ pc = "pool_eval"
           /\ idx <= Len(results)
           /\ results[idx].db_product_id = p
           /\ results[idx].status = "UNKNOWN"
           /\ stock_state[<<p, SELENIUM_REGION>>] = "in")
              => stock_state'[<<p, SELENIUM_REGION>>] = "in"]_vars

C38_OffsetAdvances ==
    [][/\ outcome'.offset >= outcome.offset
       /\ (pc = "bot_process" /\ idx' = idx + 1) =>
              outcome'.offset > results[idx].update_id
       /\ \A u \in UpdateIds : reference'[u] <= 1]_vars

\* updates 1 and 2 were handled once each over two rounds or more, the last
\* handling raised, and the offset is past both
C38_Witness ==
    /\ cycle >= 2
    /\ reference[1] = 1
    /\ reference[2] = 1
    /\ outcome.offset = 3
    /\ outcome.raised

\* what the attempts made so far and the call's end have to look like
ConnectInv ==
    /\ Len(trace) <= RETRIES
    /\ \A i \in 1..Len(trace) : trace[i] = "ok" => i = Len(trace)
    /\ (pc = "connect_returned" /\ ~startswith_sqlite(reference)) =>
          /\ trace # <<>>
          /\ trace[Len(trace)] = "ok"
          /\ outcome.kind = "connection"
          /\ outcome.attempt = Len(trace)
    /\ pc = "connect_raised" =>
          /\ Len(trace) = RETRIES
          /\ \A i \in 1..RETRIES : trace[i] \in ConnectErrors
          /\ outcome.kind = "raised"
          /\ outcome.error = trace[RETRIES]
    /\ (pc \in {"connect_try", "connect_sleep"}) =>
          \A i \in 1..Len(trace) : trace[i] \in ConnectErrors

\* C39: for a PostgreSQL URL get_connection makes at most 5 attempts, none
\* after one that succeeded; it returns the connection of the first attempt
\* that succeeds, raises the error of the 5th attempt when all 5 failed, and
\* in every run it ends.
C39_BoundedRetry ==
    /\ []ConnectInv
    /\ <>(pc \in {"connect_returned", "connect_raised"})

\* four attempts failed and the fifth returned the connection
C39_Witness ==
    /\ pc = "connect_returned"
    /\ Len(trace) = RETRIES
    /\ outcome.kind = "connection"
    /\ trace[1] # trace[2]

====
